---------------------------- MODULE Spec2Model ----------------------------
(***************************************************************************)
(* LiveDB: multi-source metadata acquisition and full-text resolution.     *)
(*                                                                         *)
(* The module models                                                       *)
(*   - the tenacity retry loop that wraps the network operations of        *)
(*     livedb/GetLatestPapers.py and livedb/OpenAlexDownload.py            *)
(*     (specification SpecRetry);                                          *)
(*   - the resolution stages of livedb_flow in main.py: the OpenAlex       *)
(*     direct-PDF downloads under DOWNLOAD_SEM and BROWSER_SEM, the        *)
(*     PMC-style resolver try_fetch_pmc_fulltext_pdf, the merge and the    *)
(*     hand-over to ingestion (specification Spec: few records, an         *)
(*     environment that fails; specification SpecLoad: more records than   *)
(*     DOWNLOAD_SEM has slots).                                            *)
(*   - livedb_flow from the two searches to the merge (SpecBatch), the     *)
(*     writers of each record dict (SpecWriters) and the file-transfer     *)
(*     strategy link by link (SpecLinks);                                  *)
(*   - extract_pdfs_from_tar_async (SpecTar), abstract_from_inverted       *)
(*     (SpecAbstract), the pagination of fetch_openalex_latest (SpecPages),*)
(*     ingest_to_db_async (SpecIngest) and download_pdf_async step by step *)
(*     (SpecDownload).                                                     *)
(*                                                                         *)
(* Records carry no identity the resolution stages read, so the tasks of a *)
(* run are kept as a bag (multiset) of task states.                        *)
(***************************************************************************)
EXTENDS Bags, FiniteSets, Integers, Sequences, TLC

VARIABLES
    call,           \* the retry-wrapped call under observation (SpecRetry)
    phase,          \* position of livedb_flow
    tasks,          \* bag of the states of the resolver tasks of the run
    DOWNLOAD_SEM,   \* free slots of main.DOWNLOAD_SEM
    BROWSER_SEM,    \* free slots of OpenAlexDownload.BROWSER_SEM
    browsers,       \* number of headless-browser instances that are open
    faults,         \* raising failures the environment may still inject
    linkCap,        \* most links one locator response carries
    all_included,   \* the merged record set handed to ingest_task
    search,         \* how the two metadata searches of the run ended
    records         \* the records of the run on their way through livedb_flow

vars == << call, phase, tasks, DOWNLOAD_SEM, BROWSER_SEM, browsers, faults,
          linkCap, all_included, search, records >>

flowVars == << phase, tasks, DOWNLOAD_SEM, BROWSER_SEM, browsers, faults,
              linkCap, all_included, search, records >>

---------------------------------------------------------------------------
(* Program constants.                                                      *)

\* main.py:21  DOWNLOAD_SEM = asyncio.Semaphore(8)
DownloadBudget == 8

\* OpenAlexDownload.py:15  BROWSER_SEM = asyncio.Semaphore(3)
BrowserBudget == 3

\* main.py:63 and main.py:79  @task(..., retries=2, ...)
TaskRetries == 2

---------------------------------------------------------------------------
(* The tenacity retry loop.                                                *)

RetryOps ==
    { "pubmed_esearch", "pubmed_efetch", "try_fetch_pmc_fulltext",
      "download_pdf_ftp", "try_fetch_pmc_fulltext_pdf", "download_pdf_async",
      "_get_with_retry" }

\* What the remote side does to the request of one attempt: it answers well,
\* the transport fails (connection error or timeout), or it answers with a
\* 5xx, a rate-limit (429) or a 404 status.  download_pdf_async issues a
\* landing-page request before the document request; "landing_timeout" is the
\* transport failure of that first request, the others hit the document request.
Statuses == { "s5xx", "s429", "s404" }

Outcomes == { "ok", "timeout" } \cup Statuses

\* What the input of a call can be wrong with, the same for every attempt:
\* "not_ftp" is a URL whose scheme is not ftp (GetLatestPapers.py:172-174).
InputFaults == { "not_ftp" }

\* "malformed" is an answer with status 200 whose payload is not well-formed
\* XML (etree.fromstring raises, GetLatestPapers.py:66).
OutcomesOf(op) ==
    CASE op = "download_pdf_async" -> Outcomes \cup { "landing_timeout" }
      [] op = "download_pdf_ftp"   -> Outcomes \cup InputFaults
      [] op = "pubmed_efetch"      -> Outcomes \cup { "malformed" }
      [] OTHER                     -> Outcomes

\* The spec's taxonomy: connection reset, timeout, 5xx, rate-limited.
Transient(o) == o \in { "timeout", "landing_timeout", "s5xx", "s429" }

ExcClasses ==
    { "RequestError", "HTTPStatusError", "Exception", "ValueError",
      "XMLSyntaxError" }

\* stop=stop_after_attempt(n) of each decorator.
StopAfterAttempt(op) == IF op = "_get_with_retry" THEN 5 ELSE 3

\* retry=retry_if_exception_type(httpx.RequestError) on _get_with_retry; the
\* other decorators keep tenacity's default, which retries on any Exception.
Retryable(op, exc) == IF op = "_get_with_retry" THEN exc = "RequestError" ELSE TRUE

\* reraise=True on _get_with_retry and download_pdf_async.
Reraise(op) == op \in { "_get_with_retry", "download_pdf_async" }

\* The plain-HTTP phase of one attempt of download_pdf_async: the landing-page
\* GET is outside the try block, so its failure leaves the attempt; everything
\* that fails inside the try block leads to the browser fallback; a document
\* response that is no error is written to save_path and returned.
PlainPhase(o) ==
    CASE o = "landing_timeout" -> "raise"
      [] o = "ok"              -> "path"
      [] OTHER                 -> "browser"

\* What the locator request of try_fetch_pmc_fulltext_pdf leads to: a transport
\* failure leaves the attempt (the GET is outside the try blocks), a status other
\* than 200 returns a result with path None.
LocatorPhase(o) ==
    CASE o = "timeout" -> "raise"
      [] o = "ok"      -> "parse"
      [] OTHER         -> "none"

\* What the request of try_fetch_pmc_fulltext leads to.
BiocPhase(o) ==
    CASE o = "timeout" -> "raise"
      [] o = "ok"      -> "text"
      [] OTHER         -> "none"

\* The ways one attempt of op can end when its request meets outcome o:
\* "value" (the result asked for), "soft" (a result that says nothing was
\* found), or the class of the exception that leaves the function body.
AttemptResults(op, o) ==
    CASE op \in { "pubmed_esearch", "pubmed_efetch", "_get_with_retry" } ->
            \* r.raise_for_status() turns every error status into an exception
            IF o = "ok" THEN { "value" }
            ELSE IF o = "timeout" THEN { "RequestError" }
            ELSE IF o = "malformed" THEN { "XMLSyntaxError" }
            ELSE { "HTTPStatusError" }
      [] op = "try_fetch_pmc_fulltext" ->
            CASE BiocPhase(o) = "raise" -> { "RequestError" }
              [] BiocPhase(o) = "text"  -> { "value", "soft" }
              [] OTHER                  -> { "soft" }
      [] op = "try_fetch_pmc_fulltext_pdf" ->
            CASE LocatorPhase(o) = "raise" -> { "RequestError" }
              [] LocatorPhase(o) = "parse" -> { "value", "soft" }
              [] OTHER                     -> { "soft" }
      [] op = "download_pdf_ftp" ->
            IF o = "ok" THEN { "value" }
            ELSE IF o = "not_ftp" THEN { "ValueError" }
            ELSE { "Exception" }
      [] op = "download_pdf_async" ->
            CASE PlainPhase(o) = "raise" -> { "Exception" }
              [] PlainPhase(o) = "path"  -> { "value" }
              [] OTHER                   -> { "value", "soft" }

StopOffByOne(op, att) == att > StopAfterAttempt(op)

\* tenacity's stop condition, asked after attempt number att has failed.
Stop(op, att) == att >= StopAfterAttempt(op)

\* tenacity after an attempt ended with exception exc: "raise" (the caller gets
\* an exception, the original one or RetryError) or "retry" (sleep, next attempt).
TenacityDecision(op, att, exc) ==
    IF ~Retryable(op, exc) THEN "raise"
    ELSE IF Stop(op, att) THEN "raise"
    ELSE "retry"

\* The exception the caller sees when tenacity gives up.
TerminalError(op, att, exc) ==
    IF ~Retryable(op, exc) \/ Reraise(op) THEN exc ELSE "RetryError"

NoCall ==
    [ op |-> "none", script |-> << >>, att |-> 0, waits |-> 0, st |-> "none",
      out |-> "none" ]

\* A call of a retry-wrapped operation and what the remote side will do to the
\* request of each of its attempts.
InitCall ==
    \E op \in RetryOps :
        \E script \in [ 1 .. StopAfterAttempt(op) -> OutcomesOf(op) ] :
            /\ \A i \in DOMAIN script : \A j \in DOMAIN script :
                  script[i] \in InputFaults => script[j] = script[i]
            /\ call = [ op |-> op, script |-> script, att |-> 1, waits |-> 0,
                     st |-> "calling", out |-> "none" ]

EnvOutcome(c) == IF c.att \in DOMAIN c.script THEN c.script[c.att] ELSE "ok"

\* One attempt: the decorated function body runs once.
RetryAttempt ==
    /\ call.st = "calling"
    /\ \E r \in AttemptResults(call.op, EnvOutcome(call)) :
          call' =
            IF r \in { "value", "soft" }
            THEN [ call EXCEPT !.st = "returned", !.out = r ]
            ELSE IF TenacityDecision(call.op, call.att, r) = "retry"
            THEN [ call EXCEPT !.st = "sleeping", !.out = r ]
            ELSE [ call EXCEPT !.st = "failed",
                               !.out = TerminalError(call.op, call.att, r) ]
    /\ UNCHANGED flowVars

\* The backoff wait (wait_exponential) between two attempts.
RetrySleep ==
    /\ call.st = "sleeping"
    /\ call' = [ call EXCEPT !.st = "calling", !.att = @ + 1, !.waits = @ + 1 ]
    /\ UNCHANGED flowVars

\* No metadata search is under observation.
NoSearch == [ oa |-> "none", pm |-> "none" ]

FlowIdle ==
    /\ phase = "idle"
    /\ tasks = EmptyBag
    /\ DOWNLOAD_SEM = DownloadBudget
    /\ BROWSER_SEM = BrowserBudget
    /\ browsers = 0
    /\ faults = 0
    /\ linkCap = 0
    /\ all_included = EmptyBag
    /\ search = NoSearch
    /\ records = { }

InitRetry == InitCall /\ FlowIdle

NextRetry == RetryAttempt \/ RetrySleep

SpecRetry == InitRetry /\ [][NextRetry]_vars

---------------------------------------------------------------------------
(* The resolver tasks of livedb_flow.                                      *)

\* The state of one record's resolver task.
\*   src    the adapter the record came from ("oa": OpenAlex, "pmc": PubMed)
\*   fn     the task that handles it ("download": download_openalex_pdf_task,
\*          "fetch": fetch_pmc_fulltext_task)
\*   loc    where that task is
\*   att    attempt number of the resolver call (download_pdf_async or
\*          try_fetch_pmc_fulltext_pdf), run: number of the Prefect task run
\*   inner  attempt number of try_fetch_pmc_fulltext
\*   links  per link of the locator response: st "run" while its
\*          download_pdf_ftp runs (att: the attempt number), then "files" (it
\*          returned at least one path) or "empty" (it returned no path)
\*   ftpFiles  a download_pdf_ftp of the task's last resolver call returned at
\*          least one path (kept once the links are gone)
\*   path   rec["fulltext_path"]: "none", "file" (a complete local path) or
\*          "char" (res["path"][0][0] of a path that is a string)
\*   dl     download_pdf_async returned a path for the record
\*   s1, s2, s3   the current resolver call has queried the structured
\*          full-text service / the open-access locator / started the
\*          file-transfer downloads
\*   raised the task's last run ended with an exception of its resolver call
\* Attempt and run numbers are kept while the task runs and are 1 afterwards.
NewTask(src, fn, loc) ==
    [ src |-> src, fn |-> fn, loc |-> loc, att |-> 1, run |-> 1, inner |-> 1,
      links |-> << >>, ftpFiles |-> FALSE, path |-> "none", dl |-> FALSE,
      s1 |-> FALSE, s2 |-> FALSE, s3 |-> FALSE, raised |-> FALSE ]

Copies(b, n) == [ e \in { b } |-> n ]

BagOf(s, n) == IF n = 0 THEN EmptyBag ELSE Copies(s, n)

Move(s, s2) == (tasks (-) SetToBag({ s })) (+) SetToBag({ s2 })

\* Sum of w[e] over the elements e of bag b that are in S, copies counted.
RECURSIVE SumOver(_, _, _)
SumOver(S, b, w) ==
    IF S = { } THEN 0
    ELSE LET e == CHOOSE x \in S : TRUE
         IN  CopiesIn(e, b) * w[e] + SumOver(S \ { e }, b, w)

\* Number of tasks of the run whose state is in S.
CountTasks(S) == SumOver(S \cap BagToSet(tasks), tasks, [ s \in S |-> 1 ])

Running(s) ==
    s.loc \in { "sem_wait", "plain", "browser_wait", "launch", "session",
                "locator", "ftp", "bioc" }

Ended(s) == s.loc \in { "done", "failed", "cancelled" }

\* The task is inside "async with DOWNLOAD_SEM:" (main.py:65-68).
InDownloadBody(s) == s.loc \in { "plain", "browser_wait", "launch", "session" }

\* The task is inside "async with BROWSER_SEM:" (OpenAlexDownload.py:234-315).
InBrowserBody(s) == s.loc \in { "launch", "session" }

\* The tasks inside "async with DOWNLOAD_SEM:" and "async with BROWSER_SEM:".
DownloadBody == { s \in BagToSet(tasks) : InDownloadBody(s) }

BrowserBody == { s \in BagToSet(tasks) : InBrowserBody(s) }

\* Links of the task whose download_pdf_ftp is running.
RunningLinks(s) == { i \in DOMAIN s.links : s.links[i].st = "run" }

\* An acquire that never blocks.
AcquireAlways(value) == TRUE

\* asyncio.Semaphore.acquire: the caller goes on only when a slot is free.
CanAcquire(value) == value > 0

\* A slot that is given back only when the block is left by a return.
ReleasedOnReturnOnly(exit) == exit = "return"

\* "async with sem:" releases the slot however the block is left: exit is
\* "return", "raise" or "cancel".
Released(exit) == exit \in { "return", "raise", "cancel" }

\* A block that keeps its slot when it is left.
SlotKept(value, held, exit) == value

SemAfter(value, held, exit) == IF held /\ Released(exit) THEN value + 1 ELSE value

\* A browser that stays open when the playwright block is left by an exception.
BrowsersLeakOnRaise(n, open, exit) == IF open /\ exit # "raise" THEN n - 1 ELSE n

\* Open browsers once a task has left "async with ... async_playwright() as p:":
\* the finally block closes context and browser; when new_context or
\* context.close() raises, browser.close() is not reached and the playwright
\* driver ends its browser as the block is left.
BrowsersAfter(n, open, exit) == IF open THEN n - 1 ELSE n

\* The task without the state of its resolver call.
Fresh(s) ==
    [ s EXCEPT !.att = 1, !.inner = 1, !.links = << >>, !.ftpFiles = FALSE,
               !.s1 = FALSE, !.s2 = FALSE, !.s3 = FALSE ]

\* The task has returned: its record and what its resolver call did are kept.
Returned(s) ==
    [ s EXCEPT !.loc = "done", !.att = 1, !.run = 1, !.inner = 1,
               !.raised = FALSE, !.links = << >>,
               !.ftpFiles = \E i \in DOMAIN s.links : s.links[i].st = "files" ]

\* Prefect after a task run ended with an exception or timed out: the task is
\* run again while retries are left (retries=2), else it is failed.  A new run
\* is a new resolver call.
TaskRunFailed(s) ==
    IF s.run <= TaskRetries
    THEN [ Fresh(s) EXCEPT !.loc = IF s.fn = "download" THEN "sem_wait"
                                   ELSE "locator",
                           !.run = @ + 1 ]
    ELSE [ Fresh(s) EXCEPT !.loc = "failed", !.run = 1 ]

ResolverOf(s) ==
    IF s.fn = "download" THEN "download_pdf_async" ELSE "try_fetch_pmc_fulltext_pdf"

\* An exception leaves one attempt of the task's resolver call.
AttemptRaised(s, exc) ==
    IF TenacityDecision(ResolverOf(s), s.att, exc) = "retry"
    THEN [ s EXCEPT !.loc = IF s.fn = "download" THEN "plain" ELSE "locator",
                    !.att = @ + 1 ]
    ELSE TaskRunFailed([ s EXCEPT !.raised = TRUE ])

\* How the resolver call is left when an exception leaves one of its attempts.
ExitAfterRaise(s, exc) ==
    IF TenacityDecision(ResolverOf(s), s.att, exc) = "retry" THEN "retry" ELSE "raise"

\* await DOWNLOAD_SEM.acquire() of download_openalex_pdf_task (main.py:65).
AcquireDownloadSem ==
    /\ phase = "download"
    /\ \E s \in BagToSet(tasks) :
          /\ s.fn = "download" /\ s.loc = "sem_wait"
          /\ CanAcquire(DOWNLOAD_SEM)
          /\ DOWNLOAD_SEM' = DOWNLOAD_SEM - 1
          /\ tasks' = Move(s, [ s EXCEPT !.loc = "plain" ])
    /\ UNCHANGED << call, phase, BROWSER_SEM, browsers, faults, linkCap,
                    all_included, search, records >>

\* One attempt's plain-HTTP phase of download_pdf_async (lines 185-233), and,
\* when it returns a path, the rest of the task (main.py:67-69).
PlainHttp ==
    /\ phase = "download"
    /\ \E s \in BagToSet(tasks) :
        /\ s.loc = "plain"
        /\ \E r \in { PlainPhase(o) : o \in OutcomesOf("download_pdf_async") } :
            /\ r = "raise" => faults > 0
            /\ faults' = IF r = "raise" THEN faults - 1 ELSE faults
            /\ tasks' = Move(s,
                 CASE r = "path"    -> [ Returned(s) EXCEPT !.path = "file",
                                                  !.dl = TRUE ]
                   [] r = "browser" -> [ s EXCEPT !.loc = "browser_wait" ]
                   [] OTHER         -> AttemptRaised(s, "Exception"))
            /\ DOWNLOAD_SEM' =
                 CASE r = "path"    -> SemAfter(DOWNLOAD_SEM, TRUE, "return")
                   [] r = "browser" -> DOWNLOAD_SEM
                   [] OTHER         ->
                        SemAfter(DOWNLOAD_SEM,
                                 ExitAfterRaise(s, "Exception") = "raise", "raise")
    /\ UNCHANGED << call, phase, BROWSER_SEM, browsers, linkCap,
                    all_included, search, records >>

\* async with BROWSER_SEM (OpenAlexDownload.py:234).
AcquireBrowserSem ==
    /\ phase = "download"
    /\ \E s \in BagToSet(tasks) :
          /\ s.loc = "browser_wait"
          /\ CanAcquire(BROWSER_SEM)
          /\ BROWSER_SEM' = BROWSER_SEM - 1
          /\ tasks' = Move(s, [ s EXCEPT !.loc = "launch" ])
    /\ UNCHANGED << call, phase, DOWNLOAD_SEM, browsers, faults, linkCap,
                    all_included, search, records >>

\* Starting playwright, chromium.launch and browser.new_context (lines 235-241).
\* They are outside the try block: when one of them raises, the exception
\* leaves the attempt through the playwright block and the semaphore block.
LaunchBrowser ==
    /\ phase = "download"
    /\ \E s \in BagToSet(tasks) :
        /\ s.loc = "launch"
        /\ \E r \in { "ok", "raise" } :
            /\ r = "raise" => faults > 0
            /\ faults' = IF r = "raise" THEN faults - 1 ELSE faults
            /\ tasks' = Move(s,
                 IF r = "ok" THEN [ s EXCEPT !.loc = "session" ]
                 ELSE AttemptRaised(s, "Exception"))
            /\ browsers' = IF r = "ok" THEN browsers + 1 ELSE browsers
            /\ BROWSER_SEM' =
                 IF r = "ok" THEN BROWSER_SEM ELSE SemAfter(BROWSER_SEM, TRUE, "raise")
            /\ DOWNLOAD_SEM' =
                 IF r = "ok" THEN DOWNLOAD_SEM
                 ELSE SemAfter(DOWNLOAD_SEM,
                               ExitAfterRaise(s, "Exception") = "raise", "raise")
    /\ UNCHANGED << call, phase, linkCap, all_included, search, records >>

\* The browser session (lines 242-315): the try body, the except clause that
\* logs and falls through (the function then returns None), the finally block
\* and the two block exits; "raise" is context.close() or browser.close()
\* raising in the finally block.
BrowserSession ==
    /\ phase = "download"
    /\ \E s \in BagToSet(tasks) :
        /\ s.loc = "session"
        /\ \E r \in { "path", "none", "raise" } :
            /\ r = "raise" => faults > 0
            /\ faults' = IF r = "raise" THEN faults - 1 ELSE faults
            /\ tasks' = Move(s,
                 CASE r = "path" -> [ Returned(s) EXCEPT !.path = "file",
                                               !.dl = TRUE ]
                   [] r = "none" -> [ Returned(s) EXCEPT !.path = "none" ]
                   [] OTHER      -> AttemptRaised(s, "Exception"))
            /\ browsers' = BrowsersAfter(browsers, TRUE,
                                         IF r = "raise" THEN "raise" ELSE "return")
            /\ BROWSER_SEM' = SemAfter(BROWSER_SEM, TRUE,
                                       IF r = "raise" THEN "raise" ELSE "return")
            /\ DOWNLOAD_SEM' =
                 IF r = "raise"
                 THEN SemAfter(DOWNLOAD_SEM,
                               ExitAfterRaise(s, "Exception") = "raise", "raise")
                 ELSE SemAfter(DOWNLOAD_SEM, TRUE, "return")
    /\ UNCHANGED << call, phase, linkCap, all_included, search, records >>

\* What the task gives back when it is cancelled at loc: the slots of the
\* semaphore blocks it is in, and its browser (the finally block runs).
Unwound(s, v) ==
    CASE v = "download" -> SemAfter(DOWNLOAD_SEM, InDownloadBody(s), "cancel")
      [] v = "browser"  -> SemAfter(BROWSER_SEM, InBrowserBody(s), "cancel")
      [] OTHER          -> BrowsersAfter(browsers, s.loc = "session", "cancel")

\* timeout_seconds of the task decorators (main.py:63, 79): Prefect cancels the
\* task run at the await it is suspended in; the run counts as failed.
TaskTimeout ==
    /\ phase \in { "download", "pmc" }
    /\ faults > 0
    /\ \E s \in BagToSet(tasks) :
          /\ Running(s)
          /\ tasks' = Move(s, TaskRunFailed([ s EXCEPT !.raised = FALSE ]))
          /\ DOWNLOAD_SEM' = Unwound(s, "download")
          /\ BROWSER_SEM' = Unwound(s, "browser")
          /\ browsers' = Unwound(s, "open")
    /\ faults' = faults - 1
    /\ UNCHANGED << call, phase, linkCap, all_included, search, records >>

\* The flow has raised: asyncio.run (main.py:158) cancels the tasks still
\* running as the exception leaves livedb_flow.
FlowCancel ==
    /\ phase = "failed"
    /\ \E s \in BagToSet(tasks) :
          /\ Running(s)
          /\ tasks' = Move(s, [ Fresh(s) EXCEPT !.loc = "cancelled", !.run = 1,
                                                 !.raised = FALSE ])
          /\ DOWNLOAD_SEM' = Unwound(s, "download")
          /\ BROWSER_SEM' = Unwound(s, "browser")
          /\ browsers' = Unwound(s, "open")
    /\ UNCHANGED << call, phase, faults, linkCap, all_included, search,
                    records >>

---------------------------------------------------------------------------
(* try_fetch_pmc_fulltext_pdf and fetch_pmc_fulltext_task.                 *)

\* A gather that returns as soon as the download of the first link has.
GatherDoneAtFirst(links) == links[1].st # "run"

\* await asyncio.gather(*tasks) (GetLatestPapers.py:234) returns the list of
\* results once the download of every link has returned.
GatherDone(links) == \A i \in DOMAIN links : links[i].st # "run"

\* GetLatestPapers.py:236  if len(paths[0]) < 1
NeedsFallbackText(links) == links[1].st = "empty"

\* The state of the task once gather has returned the paths of every link
\* (lines 236-245) and, when they are returned, fetch_pmc_fulltext_task has
\* stored res["path"][0][0] (main.py:82-85).
AfterGather(s, links) ==
    IF NeedsFallbackText(links)
    THEN [ s EXCEPT !.loc = "bioc", !.links = links, !.inner = 1 ]
    ELSE [ Returned([ s EXCEPT !.links = links ]) EXCEPT !.path = "file" ]

\* The locator request of try_fetch_pmc_fulltext_pdf and the parsing of its
\* answer (lines 210-231).  "noid": the record has neither pmid nor pmcid;
\* "none": a status other than 200, an answer that cannot be parsed, or no link.
LocatorLookup ==
    /\ phase = "pmc"
    /\ \E s \in BagToSet(tasks) :
        /\ s.fn = "fetch" /\ s.loc = "locator"
        /\ \E r \in { "noid", "raise", "none", "links" } :
           \E n \in IF r = "links" THEN 1 .. linkCap ELSE { 0 } :
            /\ r = "noid" => (s.att = 1 /\ s.run = 1)
            /\ r = "raise" => faults > 0
            /\ faults' = IF r = "raise" THEN faults - 1 ELSE faults
            /\ tasks' = Move(s,
                 CASE r = "noid"  -> Returned(s)
                   [] r = "raise" -> AttemptRaised([ s EXCEPT !.s2 = TRUE ],
                                                   "RequestError")
                   [] r = "none"  -> [ Returned(s) EXCEPT !.s2 = TRUE ]
                   [] OTHER       ->
                        [ s EXCEPT !.loc = "ftp", !.s2 = TRUE, !.s3 = TRUE,
                                   !.links = [ i \in 1 .. n |->
                                                 [ st |-> "run", att |-> 1 ] ] ])
    /\ UNCHANGED << call, phase, DOWNLOAD_SEM, BROWSER_SEM, browsers, linkCap,
                    all_included, search, records >>

\* One attempt of download_pdf_ftp for one link (lines 160-200), inside
\* asyncio.gather (line 234).  When its last attempt raises, gather raises, the
\* except clause of line 246 returns a result with path None, and the
\* downloads of the other links go on unawaited.
FtpDownload ==
    /\ phase = "pmc"
    /\ \E s \in BagToSet(tasks) :
        /\ s.loc = "ftp"
        /\ \E i \in RunningLinks(s) :
            \E r \in { "files", "empty", "raise" } :
              LET retry == TenacityDecision("download_pdf_ftp", s.links[i].att,
                                            "Exception") = "retry"
                  links == [ s.links EXCEPT ![i] = [ st |-> r, att |-> 0 ] ]
              IN  /\ r = "raise" => faults > 0
                  /\ faults' = IF r = "raise" THEN faults - 1 ELSE faults
                  /\ tasks' = Move(s,
                       CASE r = "raise" /\ retry ->
                              [ s EXCEPT !.links[i].att = @ + 1 ]
                         [] r = "raise" /\ ~retry ->
                              Returned(s)
                         [] r # "raise" /\ ~GatherDone(links) ->
                              [ s EXCEPT !.links = links ]
                         [] OTHER -> AfterGather(s, links))
    /\ UNCHANGED << call, phase, DOWNLOAD_SEM, BROWSER_SEM, browsers, linkCap,
                    all_included, search, records >>

\* One attempt of try_fetch_pmc_fulltext (lines 106-137) called from line 237,
\* then lines 238-243 and main.py:82-85.  The generated document's path is a
\* string, so res["path"][0][0] is its first character.  When the last attempt
\* raises, the except clause of line 246 returns a result with path None.
QueryFullTextService ==
    /\ phase = "pmc"
    /\ \E s \in BagToSet(tasks) :
        /\ s.loc = "bioc"
        /\ \E r \in { BiocPhase(o) : o \in Outcomes } :
            LET retry == TenacityDecision("try_fetch_pmc_fulltext", s.inner,
                                          "RequestError") = "retry"
            IN  /\ r = "raise" => faults > 0
                /\ faults' = IF r = "raise" THEN faults - 1 ELSE faults
                /\ tasks' = Move(s,
                     CASE r = "text" -> [ Returned(s) EXCEPT !.s1 = TRUE,
                                                   !.path = "char" ]
                       [] r = "none" -> [ Returned(s) EXCEPT !.s1 = TRUE ]
                       [] r = "raise" /\ retry ->
                                        [ s EXCEPT !.s1 = TRUE, !.inner = @ + 1 ]
                       [] OTHER      -> [ Returned(s) EXCEPT !.s1 = TRUE ])
    /\ UNCHANGED << call, phase, DOWNLOAD_SEM, BROWSER_SEM, browsers, linkCap,
                    all_included, search, records >>

---------------------------------------------------------------------------
(* livedb_flow: the resolution stages.                                     *)

\* main.py:119  not_included_from_oa: the downloaded records without a path.
NotIncludedFromOa(s) == s.fn = "download" /\ s.path = "none"

\* The relevant PubMed records (main.py:122-129), which wait for the PMC stage.
Classified(s) == s.fn = "fetch" /\ s.loc = "classified"

\* main.py:128-132: a task fetch_pmc_fulltext_task for every record of
\* classified_pmc + not_included_from_oa; the other records stay as they are.
StartFetch(s) ==
    IF NotIncludedFromOa(s) \/ Classified(s)
    THEN [ s EXCEPT !.fn = "fetch", !.loc = "locator", !.att = 1, !.run = 1 ]
    ELSE s

\* await asyncio.gather(*dl_tasks) has every result (main.py:118); lines
\* 119-132 start fetch_pmc_fulltext_task for the relevant PubMed records and
\* for the OpenAlex records without a full-text path.
GatherDownloads ==
    /\ phase = "download"
    /\ \A s \in BagToSet(tasks) : s.fn = "download" => s.loc = "done"
    /\ tasks' = BagOfAll(StartFetch, tasks)
    /\ phase' = "pmc"
    /\ UNCHANGED << call, DOWNLOAD_SEM, BROWSER_SEM, browsers, faults,
                    linkCap, all_included, search, records >>

\* A task of the gather in progress has failed: gather raises and, there being
\* no handler in livedb_flow, the flow ends with that exception.
FlowAbort ==
    /\ phase \in { "download", "pmc" }
    /\ \E s \in BagToSet(tasks) : s.loc = "failed"
    /\ phase' = "failed"
    /\ UNCHANGED << call, tasks, DOWNLOAD_SEM, BROWSER_SEM, browsers, faults,
                    linkCap, all_included, search, records >>

\* A record of the merged set: where it came from and its fulltext_path.
Merged(s) == [ src |-> s.src, fulltext_path |-> s.path ]

\* await asyncio.gather(*ft_tasks) has every result (main.py:133); line 136
\* merges them with the OpenAlex records that have a full-text path.
GatherFulltexts ==
    /\ phase = "pmc"
    /\ \A s \in BagToSet(tasks) : s.loc = "done"
    /\ all_included' = BagOfAll(Merged, tasks)
    /\ phase' = "ingest"
    /\ UNCHANGED << call, tasks, DOWNLOAD_SEM, BROWSER_SEM, browsers, faults,
                    linkCap, search, records >>

\* await ingest_task(all_included) and the return (main.py:141-143).
Ingest ==
    /\ phase = "ingest"
    /\ phase' = "done"
    /\ UNCHANGED << call, tasks, DOWNLOAD_SEM, BROWSER_SEM, browsers, faults,
                    linkCap, all_included, search, records >>

---------------------------------------------------------------------------
(* Specifications of the resolution stages.                                *)

\* Spec: a run with few records in an environment that may fail.
NumRecords == 2
MaxFaults == 5
MaxLinks == 2

\* SpecLoad: a run with more relevant OpenAlex records than DOWNLOAD_SEM has
\* slots.
LoadRecords == 9
LoadFaults == 1
LoadLinks == 1

\* livedb_flow at main.py:117 with nOa relevant OpenAlex records and nPm
\* relevant PubMed records.
InitFlow(nOa, nPm, f, l) ==
    /\ call = NoCall
    /\ phase = "download"
    /\ tasks = BagOf(NewTask("oa", "download", "sem_wait"), nOa)
               (+) BagOf(NewTask("pmc", "fetch", "classified"), nPm)
    /\ DOWNLOAD_SEM = DownloadBudget
    /\ BROWSER_SEM = BrowserBudget
    /\ browsers = 0
    /\ faults = f
    /\ linkCap = l
    /\ all_included = EmptyBag
    /\ search = NoSearch
    /\ records = { }

Init == \E k \in 0 .. NumRecords : InitFlow(k, NumRecords - k, MaxFaults, MaxLinks)

InitLoad == InitFlow(LoadRecords, 0, LoadFaults, LoadLinks)

Next ==
    \/ AcquireDownloadSem
    \/ PlainHttp
    \/ AcquireBrowserSem
    \/ LaunchBrowser
    \/ BrowserSession
    \/ TaskTimeout
    \/ FlowCancel
    \/ LocatorLookup
    \/ FtpDownload
    \/ QueryFullTextService
    \/ GatherDownloads
    \/ FlowAbort
    \/ GatherFulltexts
    \/ Ingest

\* The steps of a run no task of which fails for good.
NextLoad ==
    \/ AcquireDownloadSem
    \/ PlainHttp
    \/ AcquireBrowserSem
    \/ LaunchBrowser
    \/ BrowserSession
    \/ TaskTimeout
    \/ LocatorLookup
    \/ FtpDownload
    \/ QueryFullTextService
    \/ GatherDownloads
    \/ GatherFulltexts
    \/ Ingest

Spec == Init /\ [][Next]_vars

SpecLoad == InitLoad /\ [][NextLoad]_vars

\* Every step that can be taken is taken in the end: each network or browser
\* step of a task ends, and asyncio.Semaphore wakes a waiter when a slot is
\* free.
SpecLoadFair == SpecLoad /\ WF_vars(NextLoad)

---------------------------------------------------------------------------
(* livedb_flow from the metadata searches to the hand-over (main.py:103-   *)
(* 143).  The resolver tasks are seen from livedb_flow: each returns its   *)
(* record with or without a full-text path, or fails for good.             *)

\* SpecBatch: the number of works the two sources know between them; each
\* source may return a record for each work.
NumWorks == 1

\* CheckAbsModel.py:11
LABELS == { "no", "maybe", "yes" }

\* A Python value together with its type.
PyStr(v) == [ type |-> "str", value |-> v ]

PyList(v) == [ type |-> "list", value |-> v ]

\* Python's == on such values: values of different types are not equal.
PyEq(a, b) == a.type = b.type /\ a.value = b.value

\* check_abs_model (CheckAbsModel.py:103-108) for one text whose study-design
\* label is label: out_cols_labels maps "S_AB_pred" to the list of the labels
\* of the texts given.
check_abs_model(label) == [ S_AB_pred |-> PyList(<< label >>) ]

\* main.py:60
\*   final_pred = "no" if preds.get("S_AB_pred") == "no" else "yes"
FinalPred(preds) == IF PyEq(preds.S_AB_pred, PyStr("no")) THEN "no" ELSE "yes"

\* A record as a metadata adapter returns it: its source, the work it stands
\* for, whether it has a title and an abstract.  On its way it gets
\*   label       the study-design label of the classifier ("absent" before)
\*   final_pred  the verdict of classify_record_task
\*   dl          the fulltext_path download_openalex_pdf_task returned it with
\*   ft          the fulltext_path fetch_pmc_fulltext_task returned it with
\*   shared      fetch_pmc_fulltext_task wrote on the dict that
\*               downloaded_openalex holds, not on a copy of it
\* ("absent": the record was not given to that task).
AdapterRecords ==
    [ src : { "oa", "pm" }, work : 1 .. NumWorks, title : BOOLEAN,
      abstract : BOOLEAN, label : { "absent" }, final_pred : { "absent" },
      dl : { "absent" }, ft : { "absent" }, shared : { FALSE } ]

\* In one source's answer no two records stand for the same work
\* (drop_duplicates of OpenAlexDownload.py:174, the id list of ESearch).
OnePerSourceAndWork(S) ==
    \A a \in S : \A b \in S : (a.src = b.src /\ a.work = b.work) => a = b

\* main.py:112 and 124:  if r.get("abstract") and r.get("title")
Classifiable(r) == r.abstract /\ r.title

\* classify_record_task (main.py:56-61) for a record the classifier labels.
Classify(r, label) ==
    [ r EXCEPT !.label = label, !.final_pred = FinalPred(check_abs_model(label)) ]

\* A download stage that takes every OpenAlex record.
EveryOpenAlex == { r \in records : r.src = "oa" }

\* main.py:114
included_openalex == { r \in records : r.src = "oa" /\ r.final_pred = "yes" }

\* main.py:118
downloaded_openalex == { r \in records : r.dl # "absent" }

\* A fallback that takes every downloaded record, with or without a file.
EveryDownloaded == downloaded_openalex

\* main.py:119  [r for r in downloaded_openalex if not r.get("fulltext_path")]
not_included_from_oa == { r \in downloaded_openalex : r.dl = "none" }

\* main.py:125
classified_pmc == { r \in records : r.src = "pm" /\ r.label # "absent" }

\* main.py:128
combined == classified_pmc \cup not_included_from_oa

\* main.py:129
included == { r \in combined : r.final_pred = "yes" }

\* main.py:133
included_with_ft == { r \in records : r.ft # "absent" }

\* The fulltext_path of the record's dict in downloaded_openalex at line 136:
\* fetch_pmc_fulltext_task sets rec["fulltext_path"] when it resolved a path
\* (main.py:82-84), on this dict when the task was handed the dict itself.
DownloadedPath(r) == IF r.shared /\ r.ft = "file" THEN r.ft ELSE r.dl

\* A merge that takes the records of included_with_ft only.
NoOpenAlexSuccess(r) == FALSE

\* main.py:136  [r for r in downloaded_openalex if r.get("fulltext_path")]
HasFulltext(r) == DownloadedPath(r) # "none"

\* A record of all_included as ingest_task sees it.
Entry(r, path) ==
    [ src |-> r.src, work |-> r.work, final_pred |-> r.final_pred,
      fulltext_path |-> path ]

\* The variables the stages of livedb_flow leave alone in this view.
resolverVars ==
    << call, tasks, DOWNLOAD_SEM, BROWSER_SEM, browsers, faults, linkCap >>

\* livedb_flow at main.py:104: records holds what each source has for the
\* query.
InitBatch ==
    /\ call = NoCall
    /\ tasks = EmptyBag
    /\ DOWNLOAD_SEM = DownloadBudget
    /\ BROWSER_SEM = BrowserBudget
    /\ browsers = 0
    /\ faults = 0
    /\ linkCap = 0
    /\ all_included = EmptyBag
    /\ phase = "search"
    /\ search = [ oa |-> "pending", pm |-> "pending" ]
    /\ records \in { S \in SUBSET AdapterRecords : OnePerSourceAndWork(S) }

\* main.py:104-107: fetch_openalex_task and pubmed_search_task are awaited
\* with asyncio.gather; each returns or, its retries used up, fails.  gather
\* raises the first failure and livedb_flow has no handler for it.
SearchMetadata ==
    /\ phase = "search"
    /\ \E oa \in { "returned", "failed" } : \E pm \in { "returned", "failed" } :
          /\ search' = [ oa |-> oa, pm |-> pm ]
          /\ phase' = IF oa = "failed" \/ pm = "failed" THEN "failed"
                      ELSE "classify_oa"
    /\ UNCHANGED << resolverVars, all_included, records >>

\* main.py:111-114: classify_record_task for the OpenAlex records that have a
\* title and an abstract.
ClassifyOpenAlex ==
    /\ phase = "classify_oa"
    /\ \E labels \in [ { r \in records : r.src = "oa" /\ Classifiable(r) }
                       -> LABELS ] :
          records' = { IF r \in DOMAIN labels THEN Classify(r, labels[r]) ELSE r :
                       r \in records }
    /\ phase' = "download_oa"
    /\ UNCHANGED << resolverVars, all_included, search >>

\* main.py:117-118: download_openalex_pdf_task for included_openalex, every
\* task returning its record with a path or with None.
DownloadOpenAlex ==
    /\ phase = "download_oa"
    /\ \E paths \in [ included_openalex -> { "none", "file" } ] :
          records' = { IF r \in included_openalex THEN [ r EXCEPT !.dl = paths[r] ]
                       ELSE r : r \in records }
    /\ phase' = "classify_pmc"
    /\ UNCHANGED << resolverVars, all_included, search >>

\* main.py:122-125: pubmed_fetch_task, then classify_record_task for the
\* PubMed records that have a title and an abstract.
ClassifyPubMed ==
    /\ phase = "classify_pmc"
    /\ \E labels \in [ { r \in records : r.src = "pm" /\ Classifiable(r) }
                       -> LABELS ] :
          records' = { IF r \in DOMAIN labels THEN Classify(r, labels[r]) ELSE r :
                       r \in records }
    /\ phase' = "fetch_pmc"
    /\ UNCHANGED << resolverVars, all_included, search >>

\* main.py:128-133: fetch_pmc_fulltext_task for included, every task returning
\* its record with a path or without.  Whether a task works on the caller's
\* dict or on a copy of it is up to Prefect's handling of task arguments.
ResolvePmc ==
    /\ phase = "fetch_pmc"
    /\ \E paths \in [ included -> { "none", "file" } ] : \E byRef \in BOOLEAN :
          records' = { IF r \in included
                       THEN [ r EXCEPT !.ft = paths[r],
                                       !.shared = byRef /\ r.src = "oa" ]
                       ELSE r : r \in records }
    /\ phase' = "merge"
    /\ UNCHANGED << resolverVars, all_included, search >>

\* A task of the gather at main.py:118 or 133 fails for good: gather raises
\* and livedb_flow ends with the exception.
ResolverTaskFails ==
    /\ phase \in { "download_oa", "fetch_pmc" }
    /\ IF phase = "download_oa" THEN included_openalex # { } ELSE included # { }
    /\ phase' = "failed"
    /\ UNCHANGED << resolverVars, all_included, search, records >>

\* main.py:136
\*   all_included = included_with_ft
\*                  + [r for r in downloaded_openalex if r.get("fulltext_path")]
MergeIncluded ==
    /\ phase = "merge"
    /\ all_included' =
          SetToBag({ Entry(r, r.ft) : r \in included_with_ft })
          (+) SetToBag({ Entry(r, DownloadedPath(r)) :
                         r \in { x \in downloaded_openalex : HasFulltext(x) } })
    /\ phase' = "ingest"
    /\ UNCHANGED << resolverVars, search, records >>

NextBatch ==
    \/ SearchMetadata
    \/ ClassifyOpenAlex
    \/ DownloadOpenAlex
    \/ ClassifyPubMed
    \/ ResolvePmc
    \/ ResolverTaskFails
    \/ MergeIncluded
    \/ Ingest

SpecBatch == InitBatch /\ [][NextBatch]_vars

---------------------------------------------------------------------------
(* extract_pdfs_from_tar_async (GetLatestPapers.py:140-157).               *)

\* SpecTar: the largest number of entries of an archive.
MaxMembers == 2

UpperCase == "ABCDEFGHIJKLMNOPQRSTUVWXYZ"

LowerCase == "abcdefghijklmnopqrstuvwxyz"

\* The character at position i of string s.
CharAt(s, i) == SubSeq(s, i, i)

\* str.lower() on one character.
LowerChar(c) ==
    IF \E i \in 1 .. Len(UpperCase) : CharAt(UpperCase, i) = c
    THEN CharAt(LowerCase, CHOOSE i \in 1 .. Len(UpperCase) : CharAt(UpperCase, i) = c)
    ELSE c

RECURSIVE lower(_)
\* str.lower()
lower(s) == IF s = "" THEN "" ELSE LowerChar(CharAt(s, 1)) \o lower(Tail(s))

\* str.endswith(suffix)
endswith(s, suffix) ==
    /\ Len(s) >= Len(suffix)
    /\ SubSeq(s, Len(s) - Len(suffix) + 1, Len(s)) = suffix

\* A test that finds the substring nowhere.
NeverContains(sub, s) == FALSE

\* Python's  sub in s  on strings.
contains(sub, s) ==
    \E i \in 1 .. Len(s) - Len(sub) + 1 : SubSeq(s, i, i + Len(sub) - 1) = sub

\* p.rfind("/") + 1
LastSep(p) ==
    IF \E i \in 1 .. Len(p) : CharAt(p, i) = "/"
    THEN CHOOSE i \in 1 .. Len(p) :
            /\ CharAt(p, i) = "/"
            /\ \A j \in i + 1 .. Len(p) : CharAt(p, j) # "/"
    ELSE 0

RECURSIVE rstrip_sep(_)
\* str.rstrip("/")
rstrip_sep(s) ==
    IF s # "" /\ CharAt(s, Len(s)) = "/"
    THEN rstrip_sep(SubSeq(s, 1, Len(s) - 1))
    ELSE s

\* os.path.dirname (posixpath): the part before the last "/", its trailing
\* separators dropped unless it consists of separators only.
os_path_dirname(p) ==
    LET head == SubSeq(p, 1, LastSep(p))
    IN  IF rstrip_sep(head) = "" THEN head ELSE rstrip_sep(head)

\* os.path.join (posixpath) of two parts.
os_path_join(a, b) ==
    IF b # "" /\ CharAt(b, 1) = "/" THEN b
    ELSE IF a = "" \/ CharAt(a, Len(a)) = "/" THEN a \o b
    ELSE a \o "/" \o b

\* The directory the extracted documents go to.
output_dir == "out"

\* The entries an archive is made of: the name of the entry and whether it is
\* a regular file or a directory.  The bytes of an entry are told apart by the
\* entry's name.
TarMembers ==
    { [ name |-> n, type |-> "file" ] :
        n \in { "sub/article.pdf", "sub/supplement_s001.pdf", "sub/ARTICLE.PDF",
                "sub/readme.txt", "article.pdf", "sub/fig/x.pdf" } }
    \cup { [ name |-> "sub", type |-> "dir" ],
           [ name |-> "docs.pdf", type |-> "dir" ] }

\* GetLatestPapers.py:147
\*   member.isfile() and member.name.lower().endswith(".pdf")
\*   and "s00" not in member.name
Selected(member) ==
    /\ member.type = "file"
    /\ endswith(lower(member.name), ".pdf")
    /\ ~contains("s00", member.name)

\* GetLatestPapers.py:148 and 152
\*   basename = os.path.dirname(member.name) + '.pdf'
\*   out_path = os.path.join(output_dir, basename)
OutPath(member) == os_path_join(output_dir, os_path_dirname(member.name) \o ".pdf")

\* out.write(src.read()) on the file at path (opened with "wb").
WriteFile(files, path, data) ==
    [ q \in DOMAIN files \cup { path } |-> IF q = path THEN data ELSE files[q] ]

\* A call of extract_pdfs_from_tar_async on an archive.
\*   tar        the entries in the order of tar.getmembers()
\*   i          the entry the loop of line 146 is at
\*   extracted  the list of line 144
\*   files      the files below output_dir and what they hold
\*   dirs       the directories that exist once os.makedirs(output_dir) ran
InitTar ==
    /\ \E n \in 0 .. MaxMembers : \E tar \in [ 1 .. n -> TarMembers ] :
       \E dirs \in { { output_dir }, { output_dir, os_path_join(output_dir, "sub") } } :
          call = [ op |-> "extract_pdfs_from_tar_async", tar |-> tar, att |-> 1,
                   i |-> 1, extracted |-> << >>, files |-> << >>, dirs |-> dirs,
                   st |-> "calling", out |-> "none" ]
    /\ FlowIdle

\* One turn of the loop of lines 146-155.  open(out_path, "wb") raises
\* FileNotFoundError when the directory of out_path does not exist; the
\* exception leaves _extract_sync and tenacity decides.
ExtractMember ==
    /\ call.op = "extract_pdfs_from_tar_async"
    /\ call.st = "calling"
    /\ call.i <= Len(call.tar)
    /\ LET member == call.tar[call.i]
           out_path == OutPath(member)
       IN  call' =
             IF ~Selected(member)
             THEN [ call EXCEPT !.i = @ + 1 ]
             ELSE IF os_path_dirname(out_path) \in call.dirs
             THEN [ call EXCEPT !.i = @ + 1,
                                !.files = WriteFile(@, out_path, member.name),
                                !.extracted = Append(@, out_path) ]
             ELSE IF TenacityDecision(call.op, call.att, "FileNotFoundError") = "retry"
             THEN [ call EXCEPT !.st = "sleeping", !.out = "FileNotFoundError" ]
             ELSE [ call EXCEPT !.st = "failed",
                                !.out = TerminalError(call.op, call.att,
                                                      "FileNotFoundError") ]
    /\ UNCHANGED flowVars

\* GetLatestPapers.py:156  return extracted
ExtractReturn ==
    /\ call.op = "extract_pdfs_from_tar_async"
    /\ call.st = "calling"
    /\ call.i > Len(call.tar)
    /\ call' = [ call EXCEPT !.st = "returned", !.out = call.extracted ]
    /\ UNCHANGED flowVars

\* The backoff wait, then _extract_sync runs again from its first line; the
\* files written so far stay.
ExtractRetry ==
    /\ call.op = "extract_pdfs_from_tar_async"
    /\ call.st = "sleeping"
    /\ call' = [ call EXCEPT !.st = "calling", !.att = @ + 1, !.i = 1,
                             !.extracted = << >> ]
    /\ UNCHANGED flowVars

NextTar == ExtractMember \/ ExtractReturn \/ ExtractRetry

SpecTar == InitTar /\ [][NextTar]_vars

---------------------------------------------------------------------------
(* abstract_from_inverted (OpenAlexDownload.py:17-36).                     *)

\* SpecAbstract: the largest number of positions of an inverted index.
MaxTokens == 3

\* The tokens an inverted index is made of: words and stand-alone marks.
IndexTokens == { "ab", "c", ",", "(", ")" }

\* \s of the regular expressions, on one character.
IsSpace(c) == c = " "

\* The length of the run of whitespace string s starts with.
RECURSIVE SpaceRun(_)
SpaceRun(s) ==
    IF s # "" /\ IsSpace(CharAt(s, 1)) THEN 1 + SpaceRun(Tail(s)) ELSE 0

\* s without its first n characters.
Drop(s, n) == SubSeq(s, n + 1, Len(s))

\* str.strip(): whitespace at both ends removed.
RECURSIVE rstrip(_)
rstrip(s) ==
    IF s # "" /\ IsSpace(CharAt(s, Len(s)))
    THEN rstrip(SubSeq(s, 1, Len(s) - 1))
    ELSE s

strip(s) == rstrip(Drop(s, SpaceRun(s)))

\* " ".join(tokens)
RECURSIVE join(_)
join(tokens) ==
    IF tokens = << >> THEN ""
    ELSE IF Len(tokens) = 1 THEN tokens[1]
    ELSE tokens[1] \o " " \o join(Tail(tokens))

\* re.sub(r"\s+([marks])", r"\1", s): a run of whitespace that a character of
\* marks follows is removed.
RECURSIVE sub_space_before(_, _)
sub_space_before(marks, s) ==
    IF s = "" THEN ""
    ELSE IF SpaceRun(s) = 0
    THEN CharAt(s, 1) \o sub_space_before(marks, Tail(s))
    ELSE LET rest == Drop(s, SpaceRun(s))
         IN  IF rest # "" /\ CharAt(rest, 1) \in marks
             THEN sub_space_before(marks, rest)
             ELSE SubSeq(s, 1, SpaceRun(s)) \o sub_space_before(marks, rest)

\* re.sub(r"\(\s+", "(", s): a run of whitespace after "(" is removed.
RECURSIVE sub_space_after_open(_)
sub_space_after_open(s) ==
    IF s = "" THEN ""
    ELSE IF CharAt(s, 1) = "("
    THEN "(" \o sub_space_after_open(Drop(Tail(s), SpaceRun(Tail(s))))
    ELSE CharAt(s, 1) \o sub_space_after_open(Tail(s))

\* re.sub(r"\s{2,}", " ", s): a run of two or more whitespace characters
\* becomes one blank.
RECURSIVE collapse(_)
collapse(s) ==
    IF s = "" THEN ""
    ELSE IF SpaceRun(s) >= 2 THEN " " \o collapse(Drop(s, SpaceRun(s)))
    ELSE CharAt(s, 1) \o collapse(Tail(s))

\* str.split(): the maximal runs of characters that are not whitespace.
RECURSIVE WordLen(_)
WordLen(s) ==
    IF s # "" /\ ~IsSpace(CharAt(s, 1)) THEN 1 + WordLen(Tail(s)) ELSE 0

RECURSIVE split(_)
split(s) ==
    IF s = "" THEN << >>
    ELSE IF SpaceRun(s) > 0 THEN split(Drop(s, SpaceRun(s)))
    ELSE << SubSeq(s, 1, WordLen(s)) >> \o split(Drop(s, WordLen(s)))

\* OpenAlexDownload.py:25  max(p for pos in inv.values() for p in pos)
MaxPos(inv) ==
    CHOOSE p \in UNION { inv[k] : k \in DOMAIN inv } :
        \A q \in UNION { inv[k] : k \in DOMAIN inv } : q <= p

\* OpenAlexDownload.py:26-29: the list with, at each position, the token the
\* index lists there, "" where it lists none.
TokenList(inv) ==
    [ i \in 1 .. MaxPos(inv) + 1 |->
        IF \E k \in DOMAIN inv : (i - 1) \in inv[k]
        THEN CHOOSE k \in DOMAIN inv : (i - 1) \in inv[k]
        ELSE "" ]

\* The inverted index of a sequence of tokens: each token with the positions,
\* counted from 0, it stands at.
InvertedIndex(words) ==
    [ k \in { words[i] : i \in DOMAIN words } |->
        { i - 1 : i \in { j \in DOMAIN words : words[j] = k } } ]

\* A call of abstract_from_inverted on the index of a non-empty text.
InitAbstract ==
    /\ \E n \in 1 .. MaxTokens : \E words \in [ 1 .. n -> IndexTokens ] :
          call = [ op |-> "abstract_from_inverted", inv |-> InvertedIndex(words),
                   pc |-> 25, tokens |-> << >>, text |-> "", st |-> "calling",
                   out |-> "none" ]
    /\ FlowIdle

\* Lines 25-29.
FillTokens ==
    /\ call.op = "abstract_from_inverted"
    /\ call.st = "calling"
    /\ call.pc = 25
    /\ call' = [ call EXCEPT !.tokens = TokenList(call.inv), !.pc = 31 ]
    /\ UNCHANGED flowVars

\* Line 31.
JoinTokens ==
    /\ call.op = "abstract_from_inverted"
    /\ call.st = "calling"
    /\ call.pc = 31
    /\ call' = [ call EXCEPT !.text = strip(join(call.tokens)), !.pc = 32 ]
    /\ UNCHANGED flowVars

\* Lines 32-34.
TightenMarks ==
    /\ call.op = "abstract_from_inverted"
    /\ call.st = "calling"
    /\ call.pc = 32
    /\ call' = [ call EXCEPT
                   !.text = sub_space_before({ ")" },
                              sub_space_after_open(
                                sub_space_before({ ",", ".", ";", ":", "!", "?" }, @))),
                   !.pc = 35 ]
    /\ UNCHANGED flowVars

\* Lines 35-36.
CollapseAndReturn ==
    /\ call.op = "abstract_from_inverted"
    /\ call.st = "calling"
    /\ call.pc = 35
    /\ call' = [ call EXCEPT !.text = collapse(@), !.st = "returned",
                             !.out = collapse(call.text) ]
    /\ UNCHANGED flowVars

NextAbstract == FillTokens \/ JoinTokens \/ TightenMarks \/ CollapseAndReturn

SpecAbstract == InitAbstract /\ [][NextAbstract]_vars

---------------------------------------------------------------------------
(* fetch_openalex_latest: the pagination loop (OpenAlexDownload.py:150-175). *)

\* SpecPages: the largest max_records, the largest number of works on a page,
\* and the number of works the source has.
MaxCap == 4

PageSize == 2

NumIds == 2

\* The pages the source can answer with: the ids of the works of the page, in
\* order (a work may be on a page it was on before, or twice on a page).
Pages == UNION { [ 1 .. n -> 1 .. NumIds ] : n \in 0 .. PageSize }

\* A loop condition that never ends the loop.
ContinueAlways(seen, max_records) == TRUE

\* OpenAlexDownload.py:155  while seen < max_records
Continue(seen, max_records) == seen < max_records

\* OpenAlexDownload.py:160-164: the rows appended for a page; the for loop
\* ends when seen reaches max_records.
Appended(works, seen, max_records) ==
    SubSeq(works, 1, IF Len(works) <= max_records - seen THEN Len(works)
                     ELSE max_records - seen)

\* OpenAlexDownload.py:167  if not cursor or not works
EndOfResults(cursor, works) == cursor = "none" \/ works = << >>

RECURSIVE drop_duplicates(_)
\* DataFrame.drop_duplicates(subset=["id"]): the first row of each id stays.
drop_duplicates(rows) ==
    IF rows = << >> THEN << >>
    ELSE LET front == drop_duplicates(SubSeq(rows, 1, Len(rows) - 1))
             last  == rows[Len(rows)]
         IN  IF \E i \in DOMAIN front : front[i] = last THEN front
             ELSE Append(front, last)

\* A frame that keeps every row.
KeepAll(rows) == rows

\* OpenAlexDownload.py:172-174
Frame(rows) == drop_duplicates(rows)

\* A call of fetch_openalex_latest.
\*   results, seen  as in the code (rows are told apart by their id)
\*   pc             "while": at the test of line 155, "get": at line 156,
\*                  "frame": at line 172
\*   stop           a page has filled the cap, was empty or had no next cursor
InitPages ==
    /\ \E max_records \in 0 .. MaxCap :
          call = [ op |-> "fetch_openalex_latest", max_records |-> max_records,
                   results |-> << >>, seen |-> 0, pc |-> "while", stop |-> FALSE,
                   st |-> "calling", out |-> "none" ]
    /\ FlowIdle

\* Line 155.
LoopTest ==
    /\ call.op = "fetch_openalex_latest"
    /\ call.st = "calling"
    /\ call.pc = "while"
    /\ call' = [ call EXCEPT !.pc = IF Continue(call.seen, call.max_records)
                                    THEN "get" ELSE "frame" ]
    /\ UNCHANGED flowVars

\* Lines 156-170 for a page the source answers with.
GetPage ==
    /\ call.op = "fetch_openalex_latest"
    /\ call.st = "calling"
    /\ call.pc = "get"
    /\ \E works \in Pages : \E cursor \in { "none", "next" } :
          LET rows == Appended(works, call.seen, call.max_records)
          IN  call' = [ call EXCEPT
                          !.results = @ \o rows,
                          !.seen = @ + Len(rows),
                          !.stop = \/ call.seen + Len(rows) >= call.max_records
                                   \/ works = << >>
                                   \/ cursor = "none",
                          !.pc = IF EndOfResults(cursor, works) THEN "frame"
                                 ELSE "while" ]
    /\ UNCHANGED flowVars

\* Line 157: _get_with_retry raises; fetch_openalex_latest has no handler.
GetPageFails ==
    /\ call.op = "fetch_openalex_latest"
    /\ call.st = "calling"
    /\ call.pc = "get"
    /\ call' = [ call EXCEPT !.st = "failed", !.out = "raised" ]
    /\ UNCHANGED flowVars

\* Lines 172-175.
ReturnFrame ==
    /\ call.op = "fetch_openalex_latest"
    /\ call.st = "calling"
    /\ call.pc = "frame"
    /\ call' = [ call EXCEPT !.st = "returned", !.out = Frame(call.results) ]
    /\ UNCHANGED flowVars

NextPages == LoopTest \/ GetPage \/ GetPageFails \/ ReturnFrame

SpecPages == InitPages /\ [][NextPages]_vars

\* Every step of the loop that can be taken is taken in the end: each request
\* ends (timeout=30 at line 66, the attempt ceiling of _get_with_retry).
SpecPagesFair == SpecPages /\ WF_vars(NextPages)

---------------------------------------------------------------------------
(* ingest_to_db_async and process_one (IngestToDB.py:38-90).               *)

\* SpecIngest: the largest number of records given to ingest_to_db_async.
MaxBatch == 2

\* What process_one reads of a record: fulltext_path (None, an empty string
\* or a path) and pub_year (None or a number).
IngestRecords ==
    [ fulltext_path : { "None", "empty", "path" }, pub_year : { "None", "int" } ]

\* An except clause that catches nothing.
CatchesNothing(exc) == FALSE

\* IngestToDB.py:81  except Exception
CatchesException(exc) == exc \in { "TypeError", "Exception" }

\* The body of the try block of process_one (lines 40-79) for a record, when
\* add_content_async ends as add says: "True", "False", or the exception
\* raised.
\* str(None) is the string "None", which is not empty; int(None) raises
\* TypeError.
TryBody(record, add) ==
    IF record.fulltext_path = "empty" THEN "False"
    ELSE IF record.pub_year = "None" THEN "TypeError"
    ELSE IF add = "raise" THEN "Exception"
    ELSE "True"

\* The try block gets as far as line 73: add_content_async is called with
\* path=file_path.
ReachesAdd(record) == record.fulltext_path # "empty" /\ record.pub_year # "None"

\* process_one: what it returns, or "raise" when an exception leaves it.
process_one(record, add) ==
    LET r == TryBody(record, add)
    IN  IF r \in { "True", "False" } THEN r
        ELSE IF CatchesException(r) THEN "False"
        ELSE "raise"

\* list.count(v)
count(results, v) == Cardinality({ i \in DOMAIN results : results[i] = v })

\* A call of ingest_to_db_async; results holds, for each record, what its
\* process_one has returned ("pending" before), added the records
\* add_content_async has been called for.
InitIngest ==
    /\ \E n \in 0 .. MaxBatch : \E recs \in [ 1 .. n -> IngestRecords ] :
          call = [ op |-> "ingest_to_db_async", records |-> recs,
                   results |-> [ i \in 1 .. n |-> "pending" ],
                   success_count |-> 0, failed_count |-> 0, added |-> { },
                   st |-> "calling", out |-> "none" ]
    /\ FlowIdle

\* One of the coroutines of the gather of line 86 runs to its end; when it
\* raises, gather raises and ingest_to_db_async ends with the exception.
ProcessOne ==
    /\ call.op = "ingest_to_db_async"
    /\ call.st = "calling"
    /\ \E i \in DOMAIN call.results : \E add \in { "ok", "raise" } :
          /\ call.results[i] = "pending"
          /\ LET r == process_one(call.records[i], add)
                 added == IF ReachesAdd(call.records[i])
                          THEN call.added \cup { i } ELSE call.added
             IN  call' = IF r = "raise"
                         THEN [ call EXCEPT !.st = "failed", !.out = "raised",
                                            !.added = added ]
                         ELSE [ call EXCEPT !.results[i] = r, !.added = added ]
    /\ UNCHANGED flowVars

\* Lines 87-90.
CountAndReturn ==
    /\ call.op = "ingest_to_db_async"
    /\ call.st = "calling"
    /\ \A i \in DOMAIN call.results : call.results[i] # "pending"
    /\ call' = [ call EXCEPT !.success_count = count(call.results, "True"),
                             !.failed_count = count(call.results, "False"),
                             !.st = "returned", !.out = "True" ]
    /\ UNCHANGED flowVars

NextIngest == ProcessOne \/ CountAndReturn

SpecIngest == InitIngest /\ [][NextIngest]_vars

---------------------------------------------------------------------------
(* download_pdf_async, step by step (OpenAlexDownload.py:178-315).         *)

\* What an awaited request can end with: a response, an httpx transport
\* error (httpx.RequestError, a subclass of httpx.HTTPError), or the
\* asyncio.TimeoutError of asyncio.wait_for.
RequestEnds == { "response", "RequestError", "TimeoutError" }

\* The responses to the GET of the document URL: a document, a body that is
\* no document (status 200), a 401/403, another error status.
Responses == { "pdf", "other", "denied", "error" }

\* OpenAlexDownload.py:197  except httpx.HTTPError: pass
HeadIgnores(exc) == exc = "RequestError"

\* OpenAlexDownload.py:225-229: when _looks_like_pdf is false an error is
\* logged and the function goes on to write the body.
GoesOnToWrite(resp) == resp \in { "pdf", "other" }

\* OpenAlexDownload.py:242-315: the statements the try/finally covers.
InTryBlock(pc) == pc = "session"

\* A call of download_pdf_async.
\*   att       the attempt of the tenacity decorator
\*   pc        the statement the attempt is at
\*   head      how the HEAD probe of this attempt ended
\*   got       the GET of the document URL was issued in this attempt
\*   plainExc  the request of the plain-HTTP phase that raised a transport
\*             exception in this attempt
\*   fallback  this attempt has entered the except clause of line 233
\*   resp      the response the attempt holds
\*   saved, savedBy   what save_path holds and which phase wrote it
\*   sem       the attempt holds a slot of BROWSER_SEM
\*   driver, browser, context   the playwright objects of the attempt
\*   pending   how the fallback block is being left
NewDownload ==
    [ op |-> "download_pdf_async", att |-> 1, pc |-> "landing",
      head |-> "none", got |-> FALSE, plainExc |-> "none", fallback |-> FALSE,
      resp |-> "none", saved |-> "none", savedBy |-> "none", sem |-> FALSE,
      driver |-> "none", browser |-> "none", context |-> "none",
      pending |-> "none", st |-> "calling", out |-> "none" ]

InitDownload ==
    /\ call = NewDownload
    /\ phase = "idle"
    /\ tasks = EmptyBag
    /\ DOWNLOAD_SEM = DownloadBudget
    /\ BROWSER_SEM \in 0 .. BrowserBudget
    /\ browsers = 0
    /\ faults = 0
    /\ linkCap = 0
    /\ all_included = EmptyBag
    /\ search = NoSearch
    /\ records = { }

downloadVars ==
    << phase, tasks, DOWNLOAD_SEM, faults, linkCap, all_included, search,
       records >>

AtStep(pc) ==
    /\ call.op = "download_pdf_async"
    /\ call.st = "calling"
    /\ call.pc = pc

\* An exception leaves the attempt: tenacity retries or gives up (reraise).
LeftBy(c, exc) ==
    IF TenacityDecision("download_pdf_async", c.att, exc) = "retry"
    THEN [ c EXCEPT !.st = "sleeping", !.out = exc ]
    ELSE [ c EXCEPT !.st = "failed",
                    !.out = TerminalError("download_pdf_async", c.att, exc) ]

\* An exception inside the try block of line 190: the except clause of
\* line 233.
ToFallback(c) == [ c EXCEPT !.pc = "acquire", !.fallback = TRUE ]

\* Lines 186-190: the landing-page visit, before the try block.
LandingVisit ==
    /\ AtStep("landing")
    /\ \E r \in RequestEnds :
          call' = IF r = "response" THEN [ call EXCEPT !.pc = "head" ]
                  ELSE LeftBy([ call EXCEPT !.plainExc =
                                  IF r = "RequestError" THEN "landing" ELSE @ ], r)
    /\ UNCHANGED << downloadVars, BROWSER_SEM, browsers >>

\* Lines 192-198: the HEAD probe.
HeadProbe ==
    /\ AtStep("head")
    /\ \E r \in RequestEnds :
          call' = IF r = "response" \/ HeadIgnores(r)
                  THEN [ call EXCEPT !.pc = "get",
                                     !.head = IF r = "response" THEN "ok" ELSE r ]
                  ELSE ToFallback([ call EXCEPT !.head = r ])
    /\ UNCHANGED << downloadVars, BROWSER_SEM, browsers >>

\* Lines 200-203: the GET of the document URL.
DocumentGet ==
    /\ AtStep("get")
    /\ \E r \in RequestEnds : \E resp \in Responses :
          call' =
            IF r = "response"
            THEN [ call EXCEPT !.got = TRUE, !.resp = resp,
                               !.pc = IF resp = "denied" THEN "denied" ELSE "check" ]
            ELSE ToFallback([ call EXCEPT !.got = TRUE,
                                !.plainExc = IF r = "RequestError" THEN "get" ELSE @ ])
    /\ UNCHANGED << downloadVars, BROWSER_SEM, browsers >>

\* Lines 205-221: after a 401 or 403 the landing page is visited again and
\* the document is asked for with a Range header.
DeniedRetry ==
    /\ AtStep("denied")
    /\ \E r \in RequestEnds : \E resp \in Responses :
          call' =
            IF r = "response"
            THEN [ call EXCEPT !.resp = resp, !.pc = "check" ]
            ELSE ToFallback([ call EXCEPT
                                !.plainExc = IF r = "RequestError" THEN "get" ELSE @ ])
    /\ UNCHANGED << downloadVars, BROWSER_SEM, browsers >>

\* Lines 223-231: raise_for_status, the document check, the write and the
\* return.
WriteResponse ==
    /\ AtStep("check")
    /\ call' =
         IF GoesOnToWrite(call.resp)
         THEN [ call EXCEPT !.saved = call.resp, !.savedBy = "plain",
                            !.st = "returned", !.out = "save_path" ]
         ELSE ToFallback(call)
    /\ UNCHANGED << downloadVars, BROWSER_SEM, browsers >>

\* Line 234.
FallbackAcquire ==
    /\ AtStep("acquire")
    /\ CanAcquire(BROWSER_SEM)
    /\ BROWSER_SEM' = BROWSER_SEM - 1
    /\ call' = [ call EXCEPT !.sem = TRUE, !.pc = "launch" ]
    /\ UNCHANGED << downloadVars, browsers >>

\* Lines 235-236: the playwright driver is started and chromium launched.
ChromiumLaunch ==
    /\ AtStep("launch")
    /\ \E r \in { "ok", "raise" } :
          /\ call' = IF r = "ok"
                     THEN [ call EXCEPT !.driver = "running", !.browser = "open",
                                        !.pc = "new_context" ]
                     ELSE [ call EXCEPT !.driver = "running", !.pc = "exit",
                                        !.pending = "raise" ]
          /\ browsers' = IF r = "ok" THEN browsers + 1 ELSE browsers
    /\ UNCHANGED << downloadVars, BROWSER_SEM >>

\* Lines 237-241.  An exception here is outside the try block unless the
\* block covers the statement.
NewContext ==
    /\ AtStep("new_context")
    /\ \E r \in { "ok", "raise" } :
          call' = IF r = "ok"
                  THEN [ call EXCEPT !.context = "open", !.pc = "session" ]
                  ELSE IF InTryBlock("new_context")
                  THEN [ call EXCEPT !.pc = "ctx_close", !.pending = "fallthrough" ]
                  ELSE [ call EXCEPT !.pc = "exit", !.pending = "raise" ]
    /\ UNCHANGED << downloadVars, BROWSER_SEM, browsers >>

\* Lines 243-312: the body of the try block writes what it fetched, also when
\* the last document check fails (lines 300-306 log only), and returns; an
\* exception is logged by the except clause of line 311.
SessionBody ==
    /\ AtStep("session")
    /\ \E r \in { "pdf", "other", "raise" } :
          call' = IF r = "raise"
                  THEN [ call EXCEPT !.pc = "ctx_close", !.pending = "fallthrough" ]
                  ELSE [ call EXCEPT !.saved = r, !.savedBy = "browser",
                                     !.pc = "ctx_close", !.pending = "return" ]
    /\ UNCHANGED << downloadVars, BROWSER_SEM, browsers >>

\* Line 314, in the finally block.
ContextClose ==
    /\ AtStep("ctx_close")
    /\ \E r \in { "ok", "raise" } :
          call' = IF r = "ok"
                  THEN [ call EXCEPT !.context =
                                       IF @ = "open" THEN "closed" ELSE @,
                                     !.pc = "browser_close" ]
                  ELSE [ call EXCEPT !.pc = "exit", !.pending = "raise" ]
    /\ UNCHANGED << downloadVars, BROWSER_SEM, browsers >>

\* Line 315.
BrowserClose ==
    /\ AtStep("browser_close")
    /\ \E r \in { "ok", "raise" } :
          /\ call' = IF r = "ok"
                     THEN [ call EXCEPT !.browser = "closed", !.pc = "exit" ]
                     ELSE [ call EXCEPT !.pc = "exit", !.pending = "raise" ]
          /\ browsers' = IF r = "ok" THEN browsers - 1 ELSE browsers
    /\ UNCHANGED << downloadVars, BROWSER_SEM >>

\* The blocks of lines 235 and 234 are left: the playwright driver is stopped,
\* which ends a browser that is still open, and the slot is given back; then
\* the function returns, or the exception leaves the attempt.
FallbackExit ==
    /\ AtStep("exit")
    /\ LET c == [ call EXCEPT !.driver = IF @ = "running" THEN "stopped" ELSE @,
                              !.browser = IF @ = "open" THEN "killed" ELSE @,
                              !.context = IF @ = "open" THEN "killed" ELSE @,
                              !.sem = FALSE ]
       IN  call' =
             CASE call.pending = "return" ->
                    [ c EXCEPT !.st = "returned", !.out = "save_path" ]
               [] call.pending = "fallthrough" ->
                    [ c EXCEPT !.st = "returned", !.out = "None" ]
               [] call.pending = "cancel" ->
                    [ c EXCEPT !.st = "cancelled", !.out = "CancelledError" ]
               [] OTHER -> LeftBy(c, "Exception")
    /\ browsers' = BrowsersAfter(browsers, call.browser = "open", call.pending)
    /\ BROWSER_SEM' = SemAfter(BROWSER_SEM, call.sem, "return")
    /\ UNCHANGED downloadVars

\* The backoff wait, then the function body runs again from its first line.
AttemptSleep ==
    /\ call.op = "download_pdf_async"
    /\ call.st = "sleeping"
    /\ call' = [ NewDownload EXCEPT !.att = call.att + 1, !.saved = call.saved,
                                    !.savedBy = call.savedBy ]
    /\ UNCHANGED << downloadVars, BROWSER_SEM, browsers >>

\* The task is cancelled at the await it is suspended in: inside the try
\* block the finally block runs; elsewhere in the fallback the blocks are
\* left; in the plain-HTTP phase nothing is held.
CallCancelled ==
    /\ call.op = "download_pdf_async"
    /\ call.st = "calling"
    /\ call.pending # "cancel"
    /\ call' =
         CASE InTryBlock(call.pc) ->
                [ call EXCEPT !.pc = "ctx_close", !.pending = "cancel" ]
           [] call.pc \in { "launch", "new_context", "ctx_close", "browser_close",
                            "exit" } ->
                [ call EXCEPT !.pc = "exit", !.pending = "cancel" ]
           [] OTHER ->
                [ call EXCEPT !.st = "cancelled", !.out = "CancelledError" ]
    /\ UNCHANGED << downloadVars, BROWSER_SEM, browsers >>

NextDownload ==
    \/ LandingVisit
    \/ HeadProbe
    \/ DocumentGet
    \/ DeniedRetry
    \/ WriteResponse
    \/ FallbackAcquire
    \/ ChromiumLaunch
    \/ NewContext
    \/ SessionBody
    \/ ContextClose
    \/ BrowserClose
    \/ FallbackExit
    \/ AttemptSleep
    \/ CallCancelled

SpecDownload == InitDownload /\ [][NextDownload]_vars

---------------------------------------------------------------------------
(* fetch_pmc_fulltext_task and the file-transfer strategy of               *)
(* try_fetch_pmc_fulltext_pdf, link by link (main.py:79-85,                *)
(* GetLatestPapers.py:160-200 and 233-247).                                *)

\* SpecLinks: the largest number of links of a locator response.
MaxUrls == 2

\* The state of the download_pdf_ftp of one link.
\*   kind     what the link points to: a document ("pdf") or a package ("tar")
\*   st       "run" (the transfer of lines 181-191), "extract" (line 197),
\*            "files" / "empty" (it returned a list with / without paths),
\*            "raised" (its last attempt raised)
\*   att      attempt number of download_pdf_ftp
\*   xatt     attempt number of extract_pdfs_from_tar_async
\*   corrupt  the archive this attempt has downloaded cannot be read
NewLink(kind) ==
    [ kind |-> kind, st |-> "run", att |-> 1, xatt |-> 1, corrupt |-> FALSE ]

\* An except clause that catches nothing.
ExceptNothing(exc) == FALSE

\* GetLatestPapers.py:246  except Exception as e
ExceptException(exc) == exc \in { "RetryError", "Exception" }

\* An exception leaves one attempt of download_pdf_ftp (decorator of line 160).
LinkAttemptRaised(l) ==
    IF TenacityDecision("download_pdf_ftp", l.att, "Exception") = "retry"
    THEN [ NewLink(l.kind) EXCEPT !.att = l.att + 1 ]
    ELSE [ l EXCEPT !.st = "raised" ]

\* A run of fetch_pmc_fulltext_task whose locator response has given urls.
\*   pc     "gather" (line 234), "store" (main.py:82), "done"
\*   att    attempt number of try_fetch_pmc_fulltext_pdf
\*   res    res["path"]: "pending", "None", "paths" (the lists gather
\*          returned) or "text_path" (the path of the generated document)
\*   fulltext_path  "absent" (a PubMed record), "None" (an OpenAlex record
\*          whose download gave no path), "file" or "char"
InitLinks ==
    /\ \E n \in 1 .. MaxUrls : \E kinds \in [ 1 .. n -> { "pdf", "tar" } ] :
       \E fp \in { "absent", "None" } :
          call = [ op |-> "fetch_pmc_fulltext_task", pc |-> "gather", att |-> 1,
                   links |-> [ i \in 1 .. n |-> NewLink(kinds[i]) ],
                   res |-> "pending", fulltext_path |-> fp,
                   st |-> "calling", out |-> "none" ]
    /\ FlowIdle

\* The transfer of one attempt of download_pdf_ftp (lines 181-191) and, for a
\* document, the return of line 194.  The download goes on when gather has
\* raised for another link: gather does not cancel it.
FtpTransfer ==
    /\ call.op = "fetch_pmc_fulltext_task"
    /\ \E i \in DOMAIN call.links : \E r \in { "ok", "corrupt", "raise" } :
          LET l == call.links[i]
          IN  /\ l.st = "run"
              /\ r = "corrupt" => l.kind = "tar"
              /\ call' = [ call EXCEPT !.links[i] =
                   CASE r = "raise"    -> LinkAttemptRaised(l)
                     [] l.kind = "pdf" -> [ l EXCEPT !.st = "files" ]
                     [] OTHER          -> [ l EXCEPT !.st = "extract",
                                                     !.corrupt = r = "corrupt" ] ]
    /\ UNCHANGED flowVars

\* One attempt of extract_pdfs_from_tar_async (line 197).  tarfile.open raises
\* on an archive that cannot be read, each time it is tried; when the last
\* attempt has raised, the exception leaves the attempt of download_pdf_ftp.
ExtractArchive ==
    /\ call.op = "fetch_pmc_fulltext_task"
    /\ \E i \in DOMAIN call.links : \E r \in { "files", "empty" } :
          LET l == call.links[i]
          IN  /\ l.st = "extract"
              /\ call' = [ call EXCEPT !.links[i] =
                   IF ~l.corrupt THEN [ l EXCEPT !.st = r ]
                   ELSE IF TenacityDecision("extract_pdfs_from_tar_async", l.xatt,
                                            "Exception") = "retry"
                   THEN [ l EXCEPT !.xatt = @ + 1 ]
                   ELSE LinkAttemptRaised(l) ]
    /\ UNCHANGED flowVars

\* What leaves the try block of lines 233-245 once gather has ended: the
\* exception of a link, or, every list being there, the result of lines
\* 236-245 when the structured full-text service answers as text says.
TryGather(links, text) ==
    IF \E i \in DOMAIN links : links[i].st = "raised" THEN "RetryError"
    ELSE IF ~NeedsFallbackText(links) THEN "paths"
    ELSE CASE text = "text" -> "text_path"
           [] text = "none" -> "None"
           [] OTHER         -> "Exception"

\* await asyncio.gather(...) of line 234 ends, with the first exception of a
\* link or with every list; then lines 236-247.  An exception the except
\* clause does not catch leaves the attempt of try_fetch_pmc_fulltext_pdf.
GatherEnds ==
    /\ call.op = "fetch_pmc_fulltext_task"
    /\ call.st = "calling"
    /\ call.pc = "gather"
    /\ \/ \E i \in DOMAIN call.links : call.links[i].st = "raised"
       \/ \A i \in DOMAIN call.links : call.links[i].st \in { "files", "empty" }
    /\ \E text \in { "text", "none", "raise" } :
          LET r == TryGather(call.links, text)
          IN  call' =
                IF r \in { "paths", "text_path", "None" }
                THEN [ call EXCEPT !.res = r, !.pc = "store" ]
                ELSE IF ExceptException(r)
                THEN [ call EXCEPT !.res = "None", !.pc = "store" ]
                ELSE IF TenacityDecision("try_fetch_pmc_fulltext_pdf", call.att, r)
                          = "retry"
                THEN [ call EXCEPT !.att = @ + 1,
                          !.links = [ i \in DOMAIN call.links |->
                                        NewLink(call.links[i].kind) ] ]
                ELSE [ call EXCEPT !.st = "failed", !.pc = "done",
                          !.out = TerminalError("try_fetch_pmc_fulltext_pdf",
                                                call.att, r) ]
    /\ UNCHANGED flowVars

\* main.py:82-85: res["path"][0][0] is the first path of the first link, or
\* the first character of the generated document's path.
StoreAndReturn ==
    /\ call.op = "fetch_pmc_fulltext_task"
    /\ call.st = "calling"
    /\ call.pc = "store"
    /\ call' = [ call EXCEPT
                   !.fulltext_path = CASE call.res = "paths"     -> "file"
                                       [] call.res = "text_path" -> "char"
                                       [] OTHER                  -> @,
                   !.pc = "done", !.st = "returned", !.out = "rec" ]
    /\ UNCHANGED flowVars

NextLinks == FtpTransfer \/ ExtractArchive \/ GatherEnds \/ StoreAndReturn

SpecLinks == InitLinks /\ [][NextLinks]_vars

---------------------------------------------------------------------------
(* livedb_flow: which task writes on which record dict (main.py:63-69,     *)
(* 79-85, 117-136).                                                        *)

\* SpecWriters: the largest number of relevant records the run starts with.
NumDicts == 2

\* A record dict: where it came from, its fulltext_path ("absent" while the
\* key is not set, "None", "file" or "char") and the tasks that have set it.
NewDict(src) == [ src |-> src, fulltext_path |-> "absent", wrote |-> { } ]

\* The dict a task gets for the argument arg: the caller's dict, or a copy of
\* it, as Prefect handles task arguments.
TaskDict(dicts, arg, k, byRef) == IF byRef THEN arg ELSE Len(dicts) + k

\* The dicts once a task has been created for every element of targets.
WithCopies(dicts, targets, byRef) ==
    IF byRef THEN dicts
    ELSE dicts \o [ k \in 1 .. Len(targets) |->
                      [ dicts[targets[k]] EXCEPT !.wrote = { } ] ]

\* [fn(r) for r in targets]: one task for each element of the list.
NewTasks(fn, dicts, targets, byRef) ==
    [ k \in 1 .. Len(targets) |->
        [ fn |-> fn, rec |-> TaskDict(dicts, targets[k], k, byRef),
          st |-> "running", run |-> 1 ] ]

RECURSIVE Filter(_, _)
\* The elements of list that are in keep, in the order of the list.
Filter(list, keep) ==
    IF list = << >> THEN << >>
    ELSE (IF Head(list) \in keep THEN << Head(list) >> ELSE << >>)
         \o Filter(Tail(list), keep)

RECURSIVE ResultsOf(_, _)
\* The dicts the tasks fn return, in the order of the gather.
ResultsOf(ts, fn) ==
    IF ts = << >> THEN << >>
    ELSE (IF Head(ts).fn = fn THEN << Head(ts).rec >> ELSE << >>)
         \o ResultsOf(Tail(ts), fn)

\* r.get("fulltext_path") is truthy.
Truthy(d) == d.fulltext_path \in { "file", "char" }

\* A combination that lists the unresolved OpenAlex records twice.
CombinedTwice(pmc, not_included) == pmc \o not_included \o not_included

\* main.py:128  combined = classified_pmc + not_included_from_oa
Combined(pmc, not_included) == pmc \o not_included

\* livedb_flow at main.py:117 with the relevant records of the two sources.
InitWriters ==
    /\ \E n \in 1 .. NumDicts : \E srcs \in [ 1 .. n -> { "oa", "pm" } ] :
       \E byRef \in BOOLEAN :
          call = [ op |-> "livedb_flow", pc |-> "start",
                   dicts |-> [ i \in 1 .. n |-> NewDict(srcs[i]) ],
                   tasks |-> << >>, byRef |-> byRef,
                   downloaded_openalex |-> << >>, all_included |-> << >>,
                   st |-> "calling", out |-> "none" ]
    /\ FlowIdle

\* The dicts of source src the flow holds at line 117.
FromSource(src) ==
    Filter([ i \in DOMAIN call.dicts |-> i ],
           { i \in DOMAIN call.dicts : call.dicts[i].src = src })

\* main.py:117  dl_tasks = [download_openalex_pdf_task(r) for r in included_openalex]
StartDownloads ==
    /\ call.op = "livedb_flow"
    /\ call.pc = "start"
    /\ call' = [ call EXCEPT
                   !.pc = "download",
                   !.tasks = NewTasks("download", call.dicts, FromSource("oa"),
                                      call.byRef),
                   !.dicts = WithCopies(@, FromSource("oa"), call.byRef) ]
    /\ UNCHANGED flowVars

\* A run of a resolver task ends.  download_openalex_pdf_task sets
\* rec["fulltext_path"] to what download_pdf_async returned, a path or None
\* (main.py:68); fetch_pmc_fulltext_task sets it when the result has a path
\* (main.py:82-84).  A run that raised is followed by the next run of the same
\* task while retries are left.
TaskRunEnds ==
    /\ call.op = "livedb_flow"
    /\ \E k \in DOMAIN call.tasks : \E r \in { "path", "none", "raise" } :
          LET t == call.tasks[k]
          IN  /\ t.st = "running"
              /\ call' =
                   CASE r = "raise" /\ t.run <= TaskRetries ->
                          [ call EXCEPT !.tasks[k].run = @ + 1 ]
                     [] r = "raise" /\ t.run > TaskRetries ->
                          [ call EXCEPT !.tasks[k].st = "failed" ]
                     [] r = "none" /\ t.fn = "fetch" ->
                          [ call EXCEPT !.tasks[k].st = "done" ]
                     [] OTHER ->
                          [ call EXCEPT !.tasks[k].st = "done",
                                        !.dicts[t.rec].fulltext_path =
                                            IF r = "path" THEN "file" ELSE "None",
                                        !.dicts[t.rec].wrote = @ \cup { k } ]
    /\ UNCHANGED flowVars

\* main.py:118-132: the gather of the download tasks has every result; the
\* records without a path join the classified PubMed records and a
\* fetch_pmc_fulltext_task is created for each element of the list.
StartFetches ==
    /\ call.op = "livedb_flow"
    /\ call.pc = "download"
    /\ \A k \in DOMAIN call.tasks : call.tasks[k].st = "done"
    /\ LET downloaded == ResultsOf(call.tasks, "download")
           not_included == Filter(downloaded,
                              { i \in DOMAIN call.dicts : ~Truthy(call.dicts[i]) })
           targets == Combined(FromSource("pm"), not_included)
       IN  call' = [ call EXCEPT
                       !.pc = "fetch",
                       !.downloaded_openalex = downloaded,
                       !.tasks = @ \o NewTasks("fetch", call.dicts, targets,
                                               call.byRef),
                       !.dicts = WithCopies(@, targets, call.byRef) ]
    /\ UNCHANGED flowVars

\* A task of the gather in progress has failed: the flow ends with its
\* exception.
FlowRaises ==
    /\ call.op = "livedb_flow"
    /\ call.pc \in { "download", "fetch" }
    /\ \E k \in DOMAIN call.tasks : call.tasks[k].st = "failed"
    /\ call' = [ call EXCEPT !.pc = "failed", !.st = "failed", !.out = "raised" ]
    /\ UNCHANGED flowVars

\* asyncio.run cancels a task that is still running when the flow has raised.
TaskCancelled ==
    /\ call.op = "livedb_flow"
    /\ call.pc = "failed"
    /\ \E k \in DOMAIN call.tasks :
          /\ call.tasks[k].st = "running"
          /\ call' = [ call EXCEPT !.tasks[k].st = "cancelled" ]
    /\ UNCHANGED flowVars

\* main.py:133-143: the gather of the fetch tasks has every result.
MergeResults ==
    /\ call.op = "livedb_flow"
    /\ call.pc = "fetch"
    /\ \A k \in DOMAIN call.tasks : call.tasks[k].st = "done"
    /\ call' = [ call EXCEPT
                   !.pc = "done", !.st = "returned", !.out = "totals",
                   !.all_included =
                       ResultsOf(call.tasks, "fetch")
                       \o Filter(call.downloaded_openalex,
                                 { i \in DOMAIN call.dicts : Truthy(call.dicts[i]) }) ]
    /\ UNCHANGED flowVars

NextWriters ==
    \/ StartDownloads
    \/ TaskRunEnds
    \/ StartFetches
    \/ FlowRaises
    \/ TaskCancelled
    \/ MergeResults

SpecWriters == InitWriters /\ [][NextWriters]_vars

---------------------------------------------------------------------------
(* Claims about the resolution stages.                                     *)

Tasks == BagToSet(tasks)

\* A download_pdf_ftp of the task's resolver call has returned a file.
HasFtpFile(s) == s.ftpFiles \/ \E i \in DOMAIN s.links : s.links[i].st = "files"

\* Number of download_pdf_ftp calls in progress.
FtpInFlight == SumOver(Tasks, tasks, [ s \in Tasks |-> Cardinality(RunningLinks(s)) ])

\* C1: once a strategy has produced a file for a record no later strategy is
\* invoked for it: fetch_pmc_fulltext_task is never run for a record for which
\* download_pdf_async returned a path, and the structured full-text service is
\* not queried by a resolver call whose file-transfer downloads yielded a file.
C1_FirstFileWins ==
    \A s \in Tasks :
        /\ s.dl => s.fn # "fetch"
        /\ HasFtpFile(s) => ~s.s1

\* C2 as stated: the full-text service is queried first, the locator only
\* after it, the file-transfer downloads only after the locator.
C2_AsStated ==
    \A s \in Tasks :
        /\ s.s2 => s.s1
        /\ s.s3 => s.s2

\* C2 amended: the locator request comes first; the file-transfer downloads
\* start only after the locator returned links; the full-text service is
\* queried last, only after the download of every link has returned and the
\* first link yielded no file.
C2_CodeOrder ==
    \A s \in Tasks :
        /\ s.loc \in { "ftp", "bioc" } => s.s3
        /\ s.s3 => s.s2
        /\ s.s1 => /\ s.s3
                   /\ RunningLinks(s) = { }
                   /\ s.loc = "bioc" => s.links[1].st = "empty"

\* A resolver call that went through the three strategies: the locator gave
\* two links, both packages were empty, the full-text service was queried
\* and is being queried again after a failed attempt.
C2_Witness ==
    \E s \in Tasks :
        /\ s.loc = "bioc" /\ s.s1 /\ s.s2 /\ s.s3 /\ s.inner = 2
        /\ Len(s.links) = 2

\* C3: with more than 8 download tasks started together, at most 8 are inside
\* the body guarded by DOWNLOAD_SEM at any time, and while 8 are inside no
\* waiting task gets in.
C3_DownloadBound ==
    /\ CountTasks(DownloadBody) <= DownloadBudget
    /\ CountTasks(DownloadBody) = DownloadBudget => ~ENABLED AcquireDownloadSem

\* Eight tasks are inside the guarded body and another one waits for a slot.
C3_Witness ==
    /\ CountTasks(DownloadBody) = DownloadBudget
    /\ \E s \in Tasks : s.loc = "sem_wait"

\* C4: direct downloads and file-transfer downloads in progress never number
\* more than 8 together.
C4_AllDownloadsBounded ==
    CountTasks(DownloadBody) + FtpInFlight <= DownloadBudget

\* C5: at most 3 browsers are open, and each open browser belongs to a task
\* that holds a slot of BROWSER_SEM.
C5_BrowserBound ==
    /\ browsers <= BrowserBudget
    /\ browsers <= BrowserBudget - BROWSER_SEM
    /\ browsers <= CountTasks(BrowserBody)

\* Three browsers are open and a fourth task waits for a slot of BROWSER_SEM.
C5_Witness ==
    /\ browsers = BrowserBudget
    /\ \E s \in Tasks : s.loc = "browser_wait"

\* C6: every slot taken is given back exactly once however the guarded block
\* is left: the free slots plus the tasks inside the block make up the
\* capacity at all times, the free slots never exceed it, and both semaphores
\* are full once every task has ended.
C6_SlotsReleased ==
    /\ DOWNLOAD_SEM + CountTasks(DownloadBody) = DownloadBudget
    /\ BROWSER_SEM + CountTasks(BrowserBody) = BrowserBudget
    /\ DOWNLOAD_SEM \in 0 .. DownloadBudget
    /\ BROWSER_SEM \in 0 .. BrowserBudget
    /\ (\A s \in Tasks : Ended(s) \/ s.loc = "classified")
          => DOWNLOAD_SEM = DownloadBudget /\ BROWSER_SEM = BrowserBudget

\* Every task has ended, one by the exception of its resolver call in its last
\* run and another by cancellation, and both semaphores are full.
C6_Witness ==
    /\ \A s \in Tasks : Ended(s)
    /\ \E s \in Tasks : s.fn = "download" /\ s.loc = "failed" /\ s.raised
    /\ \E s \in Tasks : s.fn = "download" /\ s.loc = "cancelled"
    /\ DOWNLOAD_SEM = DownloadBudget /\ BROWSER_SEM = BrowserBudget

\* C7: livedb_flow does not end with the exception of a task whose resolver
\* call raised after its retries.
C7_FlowSurvivesRaise ==
    ~ ( /\ phase = "failed"
        /\ \E s \in Tasks : s.loc = "failed" /\ s.raised )

\* C8: no resolver call ends with an exception.
C8_NoPropagation == \A s \in Tasks : ~s.raised

---------------------------------------------------------------------------
(* Claims about the retry loop.                                            *)

Finished == call.st \in { "returned", "failed" }

Ceiling == StopAfterAttempt(call.op)

\* Attempt i of the call raises an exception that its decorator retries.
RaisesRetried(i) ==
    \A r \in AttemptResults(call.op, call.script[i]) :
        r \in ExcClasses /\ Retryable(call.op, r)

\* Attempt i of the call returns.
Returns(i) ==
    \A r \in AttemptResults(call.op, call.script[i]) : r \in { "value", "soft" }

C10_NoRetryOn404 ==
    ( call.op \in { "pubmed_esearch", "pubmed_efetch" } /\ call.script[1] = "s404" )
        => ( call.att = 1 /\ call.waits = 0 /\ call.st # "sleeping" )

\* C30: download_pdf_ftp called with a URL that is not an ftp URL, and
\* pubmed_efetch answered with malformed XML, each fail after exactly one
\* attempt, with no backoff wait.
C30_DeterministicNotRetried ==
    ( \/ call.op = "download_pdf_ftp" /\ call.script[1] = "not_ftp"
      \/ call.op = "pubmed_efetch" /\ call.script[1] = "malformed" )
        => ( call.att = 1 /\ call.waits = 0 /\ call.st # "sleeping" )

\* C11: a 5xx or rate-limit answer to the request of _get_with_retry is
\* retried, and the call fails only after the attempt ceiling of 5.
C11_StatusRetried ==
    ( /\ call.op = "_get_with_retry"
      /\ call.script[1] \in { "s5xx", "s429" }
      /\ call.st = "failed" )
        => call.att = StopAfterAttempt("_get_with_retry")

---------------------------------------------------------------------------
(* Claims about the stages of livedb_flow.                                 *)

\* livedb_flow has built all_included (main.py:136-143).
HandedOver == phase \in { "ingest", "done" }

\* The records of all_included that stand for record r.
EntriesOf(r) ==
    { e \in BagToSet(all_included) : e.src = r.src /\ e.work = r.work }

\* C12: a record without title and abstract is not classified and is in the
\* final set, with no verdict and no full-text path.
C12_UnclassifiedKept ==
    HandedOver =>
        \A r \in records :
            (~r.title /\ ~r.abstract) =>
                /\ r.label = "absent"
                /\ \E e \in EntriesOf(r) :
                      e.final_pred = "absent" /\ e.fulltext_path = "none"

\* C13: every record classified as relevant is in the set handed to
\* ingest_task, and one for which no strategy produced a file is in it with
\* no full-text path.
C13_RelevantForwarded ==
    HandedOver =>
        \A r \in records :
            r.final_pred = "yes" =>
                /\ EntriesOf(r) # { }
                /\ (r.dl # "file" /\ r.ft # "file") =>
                      \E e \in EntriesOf(r) : e.fulltext_path = "none"

\* A relevant record for which the download and the PMC strategies all
\* failed has been handed over.
C13_Witness ==
    /\ HandedOver
    /\ \E r \in records :
          /\ r.final_pred = "yes"
          /\ r.dl = "none"
          /\ r.ft = "none"
          /\ \E e \in EntriesOf(r) : e.fulltext_path = "none"

\* C14: all_included holds no record twice, whatever the resolution stages
\* gave, an OpenAlex record retried through PMC included.
C14_NoRecordTwice ==
    HandedOver =>
        \A e \in BagToSet(all_included) :
            /\ CopiesIn(e, all_included) = 1
            /\ \A f \in BagToSet(all_included) :
                  (f.src = e.src /\ f.work = e.work) => f = e

\* C15: a work both sources returned is handed to ingestion as one record,
\* never as an OpenAlex record and a PubMed record.
C15_OneRecordPerWork ==
    HandedOver =>
        \A e \in BagToSet(all_included) : \A f \in BagToSet(all_included) :
            e.work = f.work => e.src = f.src

\* C16: a record the classifier labels "no" gets final_pred "no", any other
\* label gives "yes"; a record with final_pred "no" is given to no resolver
\* and is not in the final set.
C16_PartitionByLabel ==
    \A r \in records :
        /\ r.label = "no" => r.final_pred = "no"
        /\ r.label \in { "maybe", "yes" } => r.final_pred = "yes"
        /\ r.final_pred = "no" =>
              /\ r.dl = "absent"
              /\ r.ft = "absent"
              /\ EntriesOf(r) = { }

\* C17: when one metadata search fails for good and the other returns
\* records, livedb_flow goes on with the records of the source that
\* returned; the run fails only when both searches fail.
C17_OneSourceSuffices ==
    \A s \in { "oa", "pm" } : \A o \in { "oa", "pm" } \ { s } :
        ( /\ search[s] = "returned"
          /\ search[o] = "failed"
          /\ \E r \in records : r.src = s ) => phase # "failed"

\* livedb_flow is past the gather of fetch_pmc_fulltext_task (main.py:133).
PastFallback == phase \in { "merge", "ingest", "done" }

\* C18: before the merge every relevant OpenAlex record whose download ended
\* without a file has been given to fetch_pmc_fulltext_task, and no OpenAlex
\* record whose download produced a file has.
C18_FallbackForFailedOnly ==
    PastFallback =>
        \A r \in records :
            r.src = "oa" =>
                /\ (r.final_pred = "yes" /\ r.dl = "none") => r.ft # "absent"
                /\ r.dl = "file" => r.ft = "absent"

\* An OpenAlex record without a downloaded file got its path from
\* fetch_pmc_fulltext_task, and the merge is still to come.
C18_Witness ==
    /\ phase = "merge"
    /\ \E r \in records :
          r.src = "oa" /\ r.final_pred = "yes" /\ r.dl = "none" /\ r.ft = "file"

\* C19: when the first link's package gave no file and the full-text service
\* returned text, the record's fulltext_path is the complete path of the
\* generated document.
C19_GeneratedPathComplete ==
    \A s \in Tasks :
        (s.fn = "fetch" /\ s.loc = "done" /\ s.s1 /\ s.path # "none") =>
            s.path = "file"

\* The record has been given to a full-text resolver task.
Resolved(r) == r.dl # "absent" \/ r.ft # "absent"

\* The record's classification has finished with the verdict "yes".
Relevant(r) == r.label # "absent" /\ r.final_pred = "yes"

\* C34: a record is given to download_openalex_pdf_task or
\* fetch_pmc_fulltext_task only when its classification had finished before
\* with final_pred "yes"; no unclassified record is ever resolved.
C34_ResolvedAfterClassified ==
    /\ [](\A r \in records : Resolved(r) => Relevant(r))
    /\ [][\A r \in records' :
            (Resolved(r) /\ ~\E q \in records :
                               q.src = r.src /\ q.work = r.work /\ q.dl = r.dl
                               /\ q.ft = r.ft)
            => \E q \in records :
                  q.src = r.src /\ q.work = r.work /\ Relevant(q)]_vars

\* Both resolvers have run for an OpenAlex record while a record that was
\* not classified has been left alone.
C34_Witness ==
    /\ phase = "merge"
    /\ \E r \in records : r.dl = "none" /\ r.ft # "absent"
    /\ \E r \in records : r.label = "absent" /\ ~Resolved(r)

---------------------------------------------------------------------------
(* Claims about extract_pdfs_from_tar_async.                               *)

\* The call of extract_pdfs_from_tar_async has returned its list.
Extracted == call.op = "extract_pdfs_from_tar_async" /\ call.st = "returned"

\* The spellings of the extension ".pdf".
PdfSuffixes ==
    { "." \o p \o d \o f : p \in { "p", "P" }, d \in { "d", "D" }, f \in { "f", "F" } }

\* The entries whose name ends in ".pdf" as written.
EndInPdf == { m \in TarMembers : endswith(m.name, ".pdf") }

\* The entries whose name ends in ".pdf" in any spelling.
EndInPdfAnyCase ==
    { m \in TarMembers : \E suffix \in PdfSuffixes : endswith(m.name, suffix) }

\* The regular files among the entries of S that do not carry the
\* supplementary marker.
Documents(S) ==
    { m \in S : m.type = "file" /\ ~contains("s00", m.name) }

\* The directory part of an entry's name: what stands before the "/" that
\* the file part follows, nothing for an entry at the top of the archive.
ParentDirectory(name) ==
    IF contains("/", name)
    THEN CHOOSE d \in { SubSeq(name, 1, k) : k \in 0 .. Len(name) } :
            \E b \in { SubSeq(name, k, Len(name)) : k \in 1 .. Len(name) + 1 } :
                name = d \o "/" \o b /\ ~contains("/", b)
    ELSE ""

\* <output_dir>/<parent directory>.pdf
StatedPath(m) == output_dir \o "/" \o ParentDirectory(m.name) \o ".pdf"

RECURSIVE PathsOf(_, _)
\* The paths of the entries of S in tar, in the order of the archive.
PathsOf(tar, S) ==
    IF tar = << >> THEN << >>
    ELSE (IF Head(tar) \in S THEN << StatedPath(Head(tar)) >> ELSE << >>)
         \o PathsOf(Tail(tar), S)

\* The archive of sub/article.pdf and sub/supplement_s001.pdf.
ExamplePackage ==
    /\ Len(call.tar) = 2
    /\ { call.tar[k].name : k \in DOMAIN call.tar }
          = { "sub/article.pdf", "sub/supplement_s001.pdf" }
    /\ \A k \in DOMAIN call.tar : call.tar[k].type = "file"

\* Every file below output_dir holds the bytes of an entry of S written to
\* that entry's path.
WrittenFrom(S) ==
    \A q \in DOMAIN call.files :
        \E k \in DOMAIN call.tar :
            /\ call.tar[k] \in S
            /\ StatedPath(call.tar[k]) = q
            /\ call.files[q] = call.tar[k].name

\* C20 as stated: the entries selected are the regular files whose name ends
\* in ".pdf" and does not carry "s00"; each is written to
\* <output_dir>/<parent directory>.pdf and these paths are what is returned.
C20_AsStated ==
    Extracted =>
        /\ call.out = PathsOf(call.tar, Documents(EndInPdf))
        /\ WrittenFrom(Documents(EndInPdf))

\* C20: the entries selected are the regular files whose name ends in ".pdf"
\* in any spelling of upper and lower case and does not carry "s00"; each is
\* written to <output_dir>/<parent directory>.pdf and these paths are what is
\* returned; the archive of sub/article.pdf and sub/supplement_s001.pdf gives
\* the one path <output_dir>/sub.pdf, which holds the bytes of article.pdf.
C20_SelectionAndPath ==
    /\ call.op = "extract_pdfs_from_tar_async" => WrittenFrom(Documents(EndInPdfAnyCase))
    /\ Extracted =>
          /\ call.out = PathsOf(call.tar, Documents(EndInPdfAnyCase))
          /\ \A k \in DOMAIN call.out : call.out[k] \in DOMAIN call.files
    /\ (Extracted /\ ExamplePackage) =>
          /\ call.out = << "out/sub.pdf" >>
          /\ DOMAIN call.files = { "out/sub.pdf" }
          /\ call.files["out/sub.pdf"] = "sub/article.pdf"

\* The archive of the example has been extracted.
C20_Witness ==
    /\ Extracted
    /\ ExamplePackage
    /\ call.out = << "out/sub.pdf" >>

\* The positions of the archive that hold a document: a regular file whose
\* name ends in ".pdf" in any spelling and does not carry "s00".
DocumentEntries ==
    { k \in DOMAIN call.tar : call.tar[k] \in Documents(EndInPdfAnyCase) }

\* C31: for an archive with k documents the call returns k pairwise distinct
\* paths and the bytes of every document are held by a written file: no
\* document's output is overwritten by another's, also when documents share
\* their parent directory.
C31_DistinctOutputs ==
    Extracted =>
        /\ Len(call.out) = Cardinality(DocumentEntries)
        /\ \A i, j \in DOMAIN call.out : i # j => call.out[i] # call.out[j]
        /\ \A k \in DocumentEntries :
              \E q \in DOMAIN call.files : call.files[q] = call.tar[k].name

\* The file at path lies directly in directory d.
DirectlyIn(path, d) ==
    LET rest == SubSeq(path, Len(d) + 2, Len(path))
    IN  path = d \o "/" \o rest /\ ~contains("/", rest)

\* The documents of the archive whose output directory exists.
WritableEntries ==
    { k \in DocumentEntries :
        \E d \in call.dirs : DirectlyIn(StatedPath(call.tar[k]), d) }

\* C32: a document whose output cannot be written (its output directory does
\* not exist) is skipped: no exception leaves the extraction, and the call
\* returns the path of every document that can be written.
C32_SkipAndContinue ==
    call.op = "extract_pdfs_from_tar_async" =>
        /\ call.st \notin { "sleeping", "failed" }
        /\ Extracted =>
              \A k \in WritableEntries :
                  \E i \in DOMAIN call.out : call.out[i] = StatedPath(call.tar[k])

---------------------------------------------------------------------------
(* Claims about the file-transfer strategy.                                *)

\* The download or the extraction of a link has failed after its retries.
LinkFailed ==
    \E i \in DOMAIN call.links : call.links[i].st = "raised"

\* C33: when the download or the extraction of a link has ended in failure
\* after its retries, try_fetch_pmc_fulltext_pdf does not raise and its result
\* has path None, and fetch_pmc_fulltext_task returns the record without a
\* full-text path.
C33_LinkFailureSoft ==
    (call.op = "fetch_pmc_fulltext_task" /\ LinkFailed) =>
        /\ call.st # "failed"
        /\ call.pc # "gather" => call.res = "None"
        /\ call.st = "returned" => call.fulltext_path \in { "absent", "None" }

\* The task has returned after a package that could not be read made one link
\* fail while another link had given a file.
C33_Witness ==
    /\ call.op = "fetch_pmc_fulltext_task"
    /\ call.st = "returned"
    /\ \E i \in DOMAIN call.links :
          call.links[i].st = "raised" /\ call.links[i].corrupt
    /\ \E i \in DOMAIN call.links : call.links[i].st = "files"
    /\ call.res = "None"

---------------------------------------------------------------------------
(* Claims about the writers of a record.                                   *)

\* The running tasks that can set a key of dict d.
WritersOf(d) ==
    { k \in DOMAIN call.tasks :
        call.tasks[k].st = "running" /\ call.tasks[k].rec = d }

\* C35: at any instant at most one running task can write on a given record
\* dict, and the fulltext_path of a dict has only been set by tasks that were
\* given that dict to resolve.
C35_OneWriter ==
    call.op = "livedb_flow" =>
        \A d \in DOMAIN call.dicts :
            /\ Cardinality(WritersOf(d)) <= 1
            /\ \A k \in call.dicts[d].wrote : call.tasks[k].rec = d

\* Two tasks have set the fulltext_path of the same dict, one after the
\* other, while another task was still running.
C35_Witness ==
    /\ call.op = "livedb_flow"
    /\ call.pc = "fetch"
    /\ \E d \in DOMAIN call.dicts : Cardinality(call.dicts[d].wrote) = 2
    /\ \E k \in DOMAIN call.tasks : call.tasks[k].st = "running"

---------------------------------------------------------------------------
(* Claims about the OpenAlex adapter.                                      *)

\* C21: for an index that lists every position 0..max with exactly one
\* whitespace-free token, splitting the reconstructed text on whitespace
\* gives max+1 elements, the i-th being the token listed at position i.
C21_RoundTrip ==
    (call.op = "abstract_from_inverted" /\ call.st = "returned") =>
        /\ Len(split(call.out)) = MaxPos(call.inv) + 1
        /\ \A i \in DOMAIN split(call.out) :
              /\ split(call.out)[i] \in DOMAIN call.inv
              /\ (i - 1) \in call.inv[split(call.out)[i]]

\* fetch_openalex_latest has returned its frame.
FrameReturned == call.op = "fetch_openalex_latest" /\ call.st = "returned"

\* C22: fetch_openalex_latest returns at most max_records rows and no two of
\* them have the same id, whatever pages the source sends.
C22_CappedAndDistinct ==
    FrameReturned =>
        /\ Len(call.out) <= call.max_records
        /\ \A i \in DOMAIN call.out : \A j \in DOMAIN call.out :
              call.out[i] = call.out[j] => i = j

\* The source repeated a work and the frame holds it once.
C22_Witness ==
    /\ FrameReturned
    /\ Len(call.results) > Len(call.out)
    /\ call.out # << >>

\* C27: the pagination loop ends, and once a page has filled the cap, was
\* empty or carried no next cursor, no further page is requested.
C27_LoopEnds ==
    /\ <>(call.st \in { "returned", "failed" })
    /\ [](call.stop => call.pc # "get")

\* The cap was filled by the second page or a later one and the call returned.
C27_Witness ==
    /\ FrameReturned
    /\ call.stop
    /\ call.seen = call.max_records
    /\ call.seen > PageSize

---------------------------------------------------------------------------
(* Claims about ingestion.                                                 *)

\* C25: ingest_to_db_async does not raise because a record failed: the
\* failure is counted, the other records are processed, and the two counts
\* add up to the number of records.
C25_FailuresCounted ==
    call.op = "ingest_to_db_async" =>
        /\ call.st # "failed"
        /\ call.st = "returned" =>
              /\ \A i \in DOMAIN call.results : call.results[i] \in { "True", "False" }
              /\ call.success_count + call.failed_count = Len(call.records)
              /\ \A i \in DOMAIN call.records :
                    call.records[i].pub_year = "None" => call.results[i] = "False"

\* A batch in which one record failed and another was ingested.
C25_Witness ==
    /\ call.op = "ingest_to_db_async"
    /\ call.st = "returned"
    /\ call.success_count > 0
    /\ call.failed_count > 0

\* C36: for a record whose fulltext_path is None or absent, process_one
\* returns False and add_content_async is not called.
C36_NoPathNotAdded ==
    call.op = "ingest_to_db_async" =>
        \A i \in DOMAIN call.records :
            (call.records[i].fulltext_path = "None" /\ call.results[i] # "pending")
            => (call.results[i] = "False" /\ i \notin call.added)

---------------------------------------------------------------------------
(* Claims about download_pdf_async.                                        *)

\* The attempt of download_pdf_async is over.
AttemptOver ==
    /\ call.op = "download_pdf_async"
    /\ call.st \in { "returned", "failed", "sleeping", "cancelled" }

C24_NonDocumentEscalates ==
    (call.op = "download_pdf_async" /\ call.resp = "other") =>
        /\ ~(call.savedBy = "plain" /\ call.saved = "other")
        /\ call.st = "returned" => call.fallback

\* C28: a transport exception of the plain-HTTP phase, the landing-page visit
\* included, leads to the browser fallback within the same attempt.
C28_TransportErrorEscalates ==
    (call.op = "download_pdf_async" /\ call.plainExc # "none") => call.fallback

\* C29: whatever the HEAD probe failed with, the GET of the document URL is
\* issued afterwards.
C29_HeadFailureIgnored ==
    ( /\ call.op = "download_pdf_async"
      /\ call.head \in { "RequestError", "TimeoutError" }
      /\ call.pc # "get" ) => call.got

---------------------------------------------------------------------------
(* Claims about waiting for the semaphores.                                *)

\* The tasks waiting for a slot of DOWNLOAD_SEM or of BROWSER_SEM.
Waiting == { s \in Tasks : s.loc \in { "sem_wait", "browser_wait" } }

\* C26: a task waiting for a slot of DOWNLOAD_SEM or BROWSER_SEM gets it in
\* the end when the steps of the slot holders end; tasks that hold a download
\* slot and wait for a browser slot do not deadlock.
\* The second line: while a task waits, a slot is free for a waiter or a slot
\* holder is at a step that will end, without any task being timed out.
C26_WaitersAcquire ==
    /\ (Waiting # { }) ~> (Waiting = { })
    /\ []( Waiting # { } =>
             ENABLED ( \/ AcquireDownloadSem
                       \/ AcquireBrowserSem
                       \/ PlainHttp
                       \/ LaunchBrowser
                       \/ BrowserSession ) )

\* More tasks wait for a browser slot, each holding a download slot, than
\* BROWSER_SEM has slots left, which is none.
C26_Witness ==
    /\ BROWSER_SEM = 0
    /\ \E s \in Tasks : s.loc = "browser_wait"
    /\ \E s \in Tasks : s.loc = "sem_wait"

===========================================================================
